---- MODULE Spec2Model ----
(***************************************************************************)
(* MirrexOne/Flow: a lazy stream library built on Go's range-over-func     *)
(* iterators.  A Flow wraps a producer `source func(yield func(T) bool)`.  *)
(* The model is the call stack of one evaluation: a frame per running      *)
(* producer closure, and a control record saying which frame's code runs   *)
(* next and why (it was called, its loop body was invoked by a yield, a    *)
(* yield it made returned, or a producer it called returned).              *)
(***************************************************************************)
EXTENDS Integers, Sequences, FiniteSets, TLC

VARIABLES
    flow,    \* the Flow value the caller holds (a tree of constructor records)
    calls,   \* the constructor / operator calls the caller has made, in order
    phase,   \* "build" | "eval" | "done"
    term,    \* the terminal operation that is running (or ran last)
    res,     \* the terminal operation's local variables and result
    stack,   \* the running producer closures, outermost first
    ctl,     \* which frame's code runs next, and the value or bool passed to it
    trace,   \* what the evaluation did so far (producer starts, yields, calls of
             \* caller-supplied functions, sink invocations, producer returns)
    chan,    \* the channel behind FromChannel: buffered values, closed flag, and
             \* every value sent on it so far
    sendq,   \* what the channel's sender has still to send before it closes it
    base,    \* the source Flow the caller started from (Flow values are immutable
             \* and stay usable)
    hist,    \* the terminal operations that have completed: pipeline, result, trace
    err      \* the panic that ended the caller's program, or ""

vars == <<flow, calls, phase, term, res, stack, ctl, trace, chan, sendq, base, hist, err>>

-----------------------------------------------------------------------------
(* Bounds of the model *)

MaxLen == 2
MaxIndex == 9
MaxTake == 3

Values == {0, 1, 2}

RECURSIVE SeqsUpTo(_, _)
SeqsUpTo(S, n) ==
    IF n = 0 THEN {<<>>}
    ELSE LET shorter == SeqsUpTo(S, n - 1)
         IN  shorter \cup {Append(s, x) : s \in {t \in shorter : Len(t) = n - 1}, x \in S}

Slices == SeqsUpTo(Values, MaxLen)

Min(a, b) == IF a < b THEN a ELSE b
Max(a, b) == IF a > b THEN a ELSE b

-----------------------------------------------------------------------------
(* Caller-supplied functions, by name *)

Predicates == {"isEven", "lessThanTwo"}
Mappers == {"inc", "double"}
Generators == {"index", "square"}

Predicate(p, v) ==
    CASE p = "isEven" -> v % 2 = 0
      [] p = "lessThanTwo" -> v < 2
      [] p = "greaterThanFive" -> v > 5
      [] p = "isOdd" -> v % 2 # 0
      [] p = "atLeastTwo" -> v >= 2

Mapper(m, v) ==
    CASE m = "inc" -> v + 1
      [] m = "double" -> 2 * v

Generator(g, i) ==
    CASE g = "index" -> i
      [] g = "square" -> i * i

FlowMappers == {"twice", "upTo"}
Combiners == {"sum"}
KeyFuncs == {"mod2", "identity"}

Combiner(c, a, b) == CASE c = "sum" -> a + b

KeyFunc(k, v) ==
    CASE k = "mod2" -> v % 2
      [] k = "identity" -> v

-----------------------------------------------------------------------------
(* Constructors: each returns a Flow value and runs nothing *)

Empty == [op |-> "Empty"]

NewFlow(values) == [op |-> "NewFlow", values |-> values]

Single(value) == [op |-> "Single", value |-> value]

Range(start, end) ==
    IF start >= end THEN Empty ELSE [op |-> "Range", start |-> start, end |-> end]

Infinite(generator) == [op |-> "Infinite", generator |-> generator]

FromChannel == [op |-> "FromChannel"]

Filter(f, predicate) == [op |-> "Filter", src |-> f, predicate |-> predicate]

Map(f, mapper) == [op |-> "Map", src |-> f, mapper |-> mapper]

MapTo(f, mapper) == [op |-> "MapTo", src |-> f, mapper |-> mapper]

Take(f, n) == IF n <= 0 THEN Empty ELSE [op |-> "Take", src |-> f, n |-> n]

Skip(f, n) == [op |-> "Skip", src |-> f, n |-> n]

TakeWhile(f, predicate) == [op |-> "TakeWhile", src |-> f, predicate |-> predicate]

SkipWhile(f, predicate) == [op |-> "SkipWhile", src |-> f, predicate |-> predicate]

Concat(f, other) == [op |-> "Concat", src |-> f, other |-> other]

\* (f.Merge(others...) without `if len(others) == 0 { return f }`)
FlowMergeAlwaysWraps(f, others) == [op |-> "FlowMerge", src |-> f, others |-> others]

\* the method f.Merge(others...)
FlowMerge(f, others) ==
    IF Len(others) = 0 THEN f ELSE [op |-> "FlowMerge", src |-> f, others |-> others]

\* the function Merge(flows...)
Merge(flows) ==
    IF Len(flows) = 0 THEN Empty ELSE [op |-> "Merge", flows |-> flows]

Peek(f, action) == [op |-> "Peek", src |-> f, action |-> action]

Distinct(f) == [op |-> "Distinct", src |-> f]

FlatMap(f, mapper) == [op |-> "FlatMap", src |-> f, mapper |-> mapper]

\* Chunk and Window panic on a size or step that is not positive (Panics below)
Chunk(f, size) == [op |-> "Chunk", src |-> f, size |-> size]

Window(f, size, step) == [op |-> "Window", src |-> f, size |-> size, step |-> step]

Combine(f1, f2) == [op |-> "Combine", src |-> f1, other |-> f2]

CombineWith(f1, f2, combiner) ==
    [op |-> "CombineWith", src |-> f1, other |-> f2, combiner |-> combiner]

GroupByFlow(f, keyFunc) == [op |-> "GroupByFlow", src |-> f, keyFunc |-> keyFunc]

\* The element type of a Flow (Go's type parameter T): the caller-supplied
\* functions of this model take int, so the compiler accepts them on Flow[int] only
RECURSIVE ElemType(_)
ElemType(f) ==
    CASE f.op \in {"NewFlow", "Single", "Empty", "Range", "Infinite", "FromChannel"} -> "int"
      [] f.op \in {"Chunk", "Window"} -> "slice"
      [] f.op = "Combine" -> "pair"
      [] f.op = "GroupByFlow" -> "keyvalue"
      [] f.op \in {"MapTo", "FlatMap", "CombineWith"} -> "int"
      [] f.op = "Merge" -> ElemType(f.flows[1])
      [] OTHER -> ElemType(f.src)

-----------------------------------------------------------------------------
(* The call stack *)

NewFrame(f, id, parent) ==
    [f |-> f, id |-> id, parent |-> parent, pc |-> "loop", stop |-> FALSE,
     count |-> 0, idx |-> 0, buf |-> <<>>, buf2 |-> <<>>, seen |-> {},
     skipping |-> TRUE]

Idle == [k |-> "idle", at |-> 0, v |-> 0, b |-> TRUE]
Called(i) == [k |-> "call", at |-> i, v |-> 0, b |-> TRUE]
Yielded(i, v) == [k |-> "yield", at |-> i, v |-> v, b |-> TRUE]
Returned(i, b) == [k |-> "ret", at |-> i, v |-> 0, b |-> b]
Back(i) == [k |-> "back", at |-> i, v |-> 0, b |-> TRUE]

\* The code of a producer closure of operator op runs next
AtOp(op) ==
    /\ phase = "eval"
    /\ ctl.at \in 1..Len(stack)
    /\ stack[ctl.at].f.op = op

Fr == stack[ctl.at]

\* The producer that is inside a yield call to frame i's loop body: the most
\* recently called producer whose yield is frame i's loop body
Yielder(i) ==
    LET cs == {c \in 1..Len(stack) : stack[c].parent = i}
    IN  CHOOSE c \in cs : \A d \in cs : d <= c

\* `for val := range g.source { body }` in frame i: g's producer is called with
\* frame i's loop body as its yield
RangeOver(i, fr, g, id, evs) ==
    /\ stack' = Append([stack EXCEPT ![i] = fr], NewFrame(g, id, i))
    /\ ctl' = Called(Len(stack) + 1)
    /\ trace' = trace \o evs \o <<<<"start", id>>>>

\* frame i calls its yield with v: the loop body of its caller runs
Yield(i, fr, v, evs) ==
    /\ stack' = [stack EXCEPT ![i] = fr]
    /\ ctl' = Yielded(fr.parent, v)
    /\ trace' = trace \o evs \o <<<<"yield", fr.id, v>>>>

\* frame i's loop body ends an iteration (falls through or `continue`): the
\* yield call of the producer below returns true
Continue(i, fr, evs) ==
    /\ stack' = [stack EXCEPT ![i] = fr]
    /\ ctl' = Returned(Yielder(i), TRUE)
    /\ trace' = trace \o evs

\* frame i's loop body executes `return`: the yield call of the producer below
\* returns false, and frame i returns once that producer has returned
BodyReturn(i, fr, evs) ==
    /\ stack' = [stack EXCEPT ![i] = [fr EXCEPT !.stop = TRUE]]
    /\ ctl' = Returned(Yielder(i), FALSE)
    /\ trace' = trace \o evs

\* `if !yield(v) { return }` as the last statement of a loop body, after the
\* yield call returned b
ReturnUnlessYield(i, fr, b) ==
    IF b THEN Continue(i, fr, <<>>) ELSE BodyReturn(i, fr, <<>>)

\* frame i's producer returns to the frame that called it
Return(i) ==
    /\ stack' = SubSeq(stack, 1, i - 1)
    /\ ctl' = Back(stack[i].parent)
    /\ trace' = trace \o <<<<"end", stack[i].id>>>>

\* the producer of frame i, a plain loop `for ... { if !yield(v) { return } }`:
\* the yield call it made returned false
Stopped == ctl.k = "ret" /\ ~ctl.b

\* frames are named by their place in the pipeline: the outermost producer,
\* and the producer it ranges over
Root == <<>>
Inner == <<1>>

Fn(fr, name, arg) == <<"fn", fr.id, name, arg>>

NoChan == UNCHANGED <<chan, sendq>>
Caller == UNCHANGED <<flow, calls, phase, term, res, base, hist, err>>

-----------------------------------------------------------------------------
(* Source producers *)

\* NewFlow: for _, val := range values { if !yield(val) { return } }
\* (NewFlowSource yielding its values to the first evaluation only)
NewFlowSourceOnce ==
    /\ AtOp("NewFlow")
    /\ IF Stopped \/ hist # <<>> THEN Return(ctl.at)
       ELSE IF Fr.idx < Len(Fr.f.values)
            THEN Yield(ctl.at, [Fr EXCEPT !.idx = @ + 1], Fr.f.values[Fr.idx + 1], <<>>)
            ELSE Return(ctl.at)
    /\ Caller /\ NoChan

NewFlowSource ==
    /\ AtOp("NewFlow")
    /\ IF Stopped THEN Return(ctl.at)
       ELSE IF Fr.idx < Len(Fr.f.values)
            THEN Yield(ctl.at, [Fr EXCEPT !.idx = @ + 1], Fr.f.values[Fr.idx + 1], <<>>)
            ELSE Return(ctl.at)
    /\ Caller /\ NoChan

\* Single: yield(value)
SingleSource ==
    /\ AtOp("Single")
    /\ IF ctl.k = "call"
       THEN Yield(ctl.at, Fr, Fr.f.value, <<>>)
       ELSE Return(ctl.at)
    /\ Caller /\ NoChan

\* Empty: func(yield func(T) bool) {}
EmptySource ==
    /\ AtOp("Empty")
    /\ Return(ctl.at)
    /\ Caller /\ NoChan

\* Range: for i := start; i < end; i++ { if !yield(i) { return } }
RangeSource ==
    /\ AtOp("Range")
    /\ LET i == Fr.f.start + Fr.idx
       IN  IF Stopped THEN Return(ctl.at)
           ELSE IF i < Fr.f.end
                THEN Yield(ctl.at, [Fr EXCEPT !.idx = @ + 1], i, <<>>)
                ELSE Return(ctl.at)
    /\ Caller /\ NoChan

\* Infinite: i := 0; for { if !yield(generator(i)) { return }; i++ }
InfiniteSource ==
    /\ AtOp("Infinite")
    /\ IF Stopped THEN Return(ctl.at)
       ELSE /\ Fr.idx < MaxIndex
            /\ Yield(ctl.at, [Fr EXCEPT !.idx = @ + 1],
                     Generator(Fr.f.generator, Fr.idx),
                     <<Fn(Fr, Fr.f.generator, Fr.idx)>>)
    /\ Caller /\ NoChan

\* FromChannel: for val := range ch { if !yield(val) { return } }
\* (a receive blocks while the channel is empty and open)
FromChannelSource ==
    /\ AtOp("FromChannel")
    /\ IF Stopped THEN Return(ctl.at) /\ UNCHANGED chan
       ELSE IF chan.buf # <<>>
            THEN /\ Yield(ctl.at, [Fr EXCEPT !.idx = @ + 1], Head(chan.buf), <<>>)
                 /\ chan' = [chan EXCEPT !.buf = Tail(@)]
            ELSE /\ chan.closed
                 /\ Return(ctl.at)
                 /\ UNCHANGED chan
    /\ UNCHANGED sendq
    /\ Caller

\* The goroutine feeding the channel: for _, v := range data { ch <- v }; close(ch)
ChanCap == 1

Sender ==
    /\ ~chan.closed
    /\ IF sendq # <<>>
       THEN /\ Len(chan.buf) < ChanCap
            /\ chan' = [chan EXCEPT !.buf = Append(@, Head(sendq)),
                                    !.sent = Append(@, Head(sendq))]
            /\ sendq' = Tail(sendq)
       ELSE /\ chan' = [chan EXCEPT !.closed = TRUE]
            /\ sendq' = sendq
    /\ UNCHANGED <<flow, calls, phase, term, res, stack, ctl, trace, base, hist, err>>

-----------------------------------------------------------------------------
(* Producers of the single-source operators *)

\* Filter: for val := range f.source { if predicate(val) { if !yield(val) { return } } }
\* (FilterSource with `if !predicate(val)`)
FilterSourceNegated ==
    /\ AtOp("Filter")
    /\ CASE ctl.k = "call" -> RangeOver(ctl.at, Fr, Fr.f.src, Fr.id \o <<1>>, <<>>)
         [] ctl.k = "yield" ->
                IF ~Predicate(Fr.f.predicate, ctl.v)
                THEN Yield(ctl.at, Fr, ctl.v, <<Fn(Fr, Fr.f.predicate, ctl.v)>>)
                ELSE Continue(ctl.at, Fr, <<Fn(Fr, Fr.f.predicate, ctl.v)>>)
         [] ctl.k = "ret" -> ReturnUnlessYield(ctl.at, Fr, ctl.b)
         [] ctl.k = "back" -> Return(ctl.at)
    /\ Caller /\ NoChan

FilterSource ==
    /\ AtOp("Filter")
    /\ CASE ctl.k = "call" -> RangeOver(ctl.at, Fr, Fr.f.src, Fr.id \o <<1>>, <<>>)
         [] ctl.k = "yield" ->
                IF Predicate(Fr.f.predicate, ctl.v)
                THEN Yield(ctl.at, Fr, ctl.v, <<Fn(Fr, Fr.f.predicate, ctl.v)>>)
                ELSE Continue(ctl.at, Fr, <<Fn(Fr, Fr.f.predicate, ctl.v)>>)
         [] ctl.k = "ret" -> ReturnUnlessYield(ctl.at, Fr, ctl.b)
         [] ctl.k = "back" -> Return(ctl.at)
    /\ Caller /\ NoChan

\* Map: for val := range f.source { if !yield(mapper(val)) { return } }
MapSource ==
    /\ AtOp("Map")
    /\ CASE ctl.k = "call" -> RangeOver(ctl.at, Fr, Fr.f.src, Fr.id \o <<1>>, <<>>)
         [] ctl.k = "yield" ->
                Yield(ctl.at, Fr, Mapper(Fr.f.mapper, ctl.v), <<Fn(Fr, Fr.f.mapper, ctl.v)>>)
         [] ctl.k = "ret" -> ReturnUnlessYield(ctl.at, Fr, ctl.b)
         [] ctl.k = "back" -> Return(ctl.at)
    /\ Caller /\ NoChan

\* MapTo: for val := range f.source { if !yield(mapper(val)) { return } }
\* (MapToSource yielding val in place of mapper(val))
MapToSourceUnmapped ==
    /\ AtOp("MapTo")
    /\ CASE ctl.k = "call" -> RangeOver(ctl.at, Fr, Fr.f.src, Fr.id \o <<1>>, <<>>)
         [] ctl.k = "yield" -> Yield(ctl.at, Fr, ctl.v, <<Fn(Fr, Fr.f.mapper, ctl.v)>>)
         [] ctl.k = "ret" -> ReturnUnlessYield(ctl.at, Fr, ctl.b)
         [] ctl.k = "back" -> Return(ctl.at)
    /\ Caller /\ NoChan

MapToSource ==
    /\ AtOp("MapTo")
    /\ CASE ctl.k = "call" -> RangeOver(ctl.at, Fr, Fr.f.src, Fr.id \o <<1>>, <<>>)
         [] ctl.k = "yield" ->
                Yield(ctl.at, Fr, Mapper(Fr.f.mapper, ctl.v), <<Fn(Fr, Fr.f.mapper, ctl.v)>>)
         [] ctl.k = "ret" -> ReturnUnlessYield(ctl.at, Fr, ctl.b)
         [] ctl.k = "back" -> Return(ctl.at)
    /\ Caller /\ NoChan

\* Peek: for val := range f.source { action(val); if !yield(val) { return } }
\* (PeekSource calling action twice for each element)
PeekSourceTwice ==
    /\ AtOp("Peek")
    /\ CASE ctl.k = "call" -> RangeOver(ctl.at, Fr, Fr.f.src, Fr.id \o <<1>>, <<>>)
         [] ctl.k = "yield" -> Yield(ctl.at, Fr, ctl.v, <<Fn(Fr, Fr.f.action, ctl.v),
                                                         Fn(Fr, Fr.f.action, ctl.v)>>)
         [] ctl.k = "ret" -> ReturnUnlessYield(ctl.at, Fr, ctl.b)
         [] ctl.k = "back" -> Return(ctl.at)
    /\ Caller /\ NoChan

PeekSource ==
    /\ AtOp("Peek")
    /\ CASE ctl.k = "call" -> RangeOver(ctl.at, Fr, Fr.f.src, Fr.id \o <<1>>, <<>>)
         [] ctl.k = "yield" -> Yield(ctl.at, Fr, ctl.v, <<Fn(Fr, Fr.f.action, ctl.v)>>)
         [] ctl.k = "ret" -> ReturnUnlessYield(ctl.at, Fr, ctl.b)
         [] ctl.k = "back" -> Return(ctl.at)
    /\ Caller /\ NoChan

\* Take: count := 0
\*       for val := range f.source {
\*           if !yield(val) { return }; count++; if count >= n { return } }
\* (TakeSource without `if count >= n { return }`)
TakeSourceNoLimit ==
    /\ AtOp("Take")
    /\ CASE ctl.k = "call" ->
                IF Fr.f.n = 0 THEN Return(ctl.at)
                ELSE RangeOver(ctl.at, Fr, Fr.f.src, Fr.id \o <<1>>, <<>>)
         [] ctl.k = "yield" -> Yield(ctl.at, Fr, ctl.v, <<>>)
         [] ctl.k = "ret" ->
                IF ~ctl.b THEN BodyReturn(ctl.at, Fr, <<>>)
                ELSE Continue(ctl.at, [Fr EXCEPT !.count = @ + 1], <<>>)
         [] ctl.k = "back" -> Return(ctl.at)
    /\ Caller /\ NoChan

\* (TakeSource with `count > n` in place of `count >= n`)
TakeSourceOneMore ==
    /\ AtOp("Take")
    /\ CASE ctl.k = "call" ->
                IF Fr.f.n = 0 THEN Return(ctl.at)
                ELSE RangeOver(ctl.at, Fr, Fr.f.src, Fr.id \o <<1>>, <<>>)
         [] ctl.k = "yield" -> Yield(ctl.at, Fr, ctl.v, <<>>)
         [] ctl.k = "ret" ->
                IF ~ctl.b THEN BodyReturn(ctl.at, Fr, <<>>)
                ELSE IF Fr.count + 1 > Fr.f.n
                     THEN BodyReturn(ctl.at, [Fr EXCEPT !.count = @ + 1], <<>>)
                     ELSE Continue(ctl.at, [Fr EXCEPT !.count = @ + 1], <<>>)
         [] ctl.k = "back" -> Return(ctl.at)
    /\ Caller /\ NoChan

TakeSource ==
    /\ AtOp("Take")
    /\ CASE ctl.k = "call" ->
                IF Fr.f.n = 0 THEN Return(ctl.at)
                ELSE RangeOver(ctl.at, Fr, Fr.f.src, Fr.id \o <<1>>, <<>>)
         [] ctl.k = "yield" -> Yield(ctl.at, Fr, ctl.v, <<>>)
         [] ctl.k = "ret" ->
                IF ~ctl.b THEN BodyReturn(ctl.at, Fr, <<>>)
                ELSE IF Fr.count + 1 >= Fr.f.n
                     THEN BodyReturn(ctl.at, [Fr EXCEPT !.count = @ + 1], <<>>)
                     ELSE Continue(ctl.at, [Fr EXCEPT !.count = @ + 1], <<>>)
         [] ctl.k = "back" -> Return(ctl.at)
    /\ Caller /\ NoChan

\* Skip: count := 0
\*       for val := range f.source {
\*           if count < n { count++; continue }; if !yield(val) { return } }
\* (SkipSource with `if count <= n`)
SkipSourceOneMore ==
    /\ AtOp("Skip")
    /\ CASE ctl.k = "call" -> RangeOver(ctl.at, Fr, Fr.f.src, Fr.id \o <<1>>, <<>>)
         [] ctl.k = "yield" ->
                IF Fr.count <= Fr.f.n
                THEN Continue(ctl.at, [Fr EXCEPT !.count = @ + 1], <<>>)
                ELSE Yield(ctl.at, Fr, ctl.v, <<>>)
         [] ctl.k = "ret" -> ReturnUnlessYield(ctl.at, Fr, ctl.b)
         [] ctl.k = "back" -> Return(ctl.at)
    /\ Caller /\ NoChan

SkipSource ==
    /\ AtOp("Skip")
    /\ CASE ctl.k = "call" -> RangeOver(ctl.at, Fr, Fr.f.src, Fr.id \o <<1>>, <<>>)
         [] ctl.k = "yield" ->
                IF Fr.count < Fr.f.n
                THEN Continue(ctl.at, [Fr EXCEPT !.count = @ + 1], <<>>)
                ELSE Yield(ctl.at, Fr, ctl.v, <<>>)
         [] ctl.k = "ret" -> ReturnUnlessYield(ctl.at, Fr, ctl.b)
         [] ctl.k = "back" -> Return(ctl.at)
    /\ Caller /\ NoChan

\* TakeWhile: for val := range f.source {
\*                if !predicate(val) { return }; if !yield(val) { return } }
TakeWhileSource ==
    /\ AtOp("TakeWhile")
    /\ CASE ctl.k = "call" -> RangeOver(ctl.at, Fr, Fr.f.src, Fr.id \o <<1>>, <<>>)
         [] ctl.k = "yield" ->
                IF ~Predicate(Fr.f.predicate, ctl.v)
                THEN BodyReturn(ctl.at, Fr, <<Fn(Fr, Fr.f.predicate, ctl.v)>>)
                ELSE Yield(ctl.at, Fr, ctl.v, <<Fn(Fr, Fr.f.predicate, ctl.v)>>)
         [] ctl.k = "ret" -> ReturnUnlessYield(ctl.at, Fr, ctl.b)
         [] ctl.k = "back" -> Return(ctl.at)
    /\ Caller /\ NoChan

\* SkipWhile: skipping := true
\*            for val := range f.source {
\*                if skipping && predicate(val) { continue }
\*                skipping = false; if !yield(val) { return } }
\* (SkipWhileSource without `skipping = false`)
SkipWhileSourceKeepsSkipping ==
    /\ AtOp("SkipWhile")
    /\ CASE ctl.k = "call" -> RangeOver(ctl.at, Fr, Fr.f.src, Fr.id \o <<1>>, <<>>)
         [] ctl.k = "yield" ->
                LET evs == IF Fr.skipping THEN <<Fn(Fr, Fr.f.predicate, ctl.v)>> ELSE <<>>
                IN  IF Fr.skipping /\ Predicate(Fr.f.predicate, ctl.v)
                    THEN Continue(ctl.at, Fr, evs)
                    ELSE Yield(ctl.at, Fr, ctl.v, evs)
         [] ctl.k = "ret" -> ReturnUnlessYield(ctl.at, Fr, ctl.b)
         [] ctl.k = "back" -> Return(ctl.at)
    /\ Caller /\ NoChan

SkipWhileSource ==
    /\ AtOp("SkipWhile")
    /\ CASE ctl.k = "call" -> RangeOver(ctl.at, Fr, Fr.f.src, Fr.id \o <<1>>, <<>>)
         [] ctl.k = "yield" ->
                LET evs == IF Fr.skipping THEN <<Fn(Fr, Fr.f.predicate, ctl.v)>> ELSE <<>>
                IN  IF Fr.skipping /\ Predicate(Fr.f.predicate, ctl.v)
                    THEN Continue(ctl.at, Fr, evs)
                    ELSE Yield(ctl.at, [Fr EXCEPT !.skipping = FALSE], ctl.v, evs)
         [] ctl.k = "ret" -> ReturnUnlessYield(ctl.at, Fr, ctl.b)
         [] ctl.k = "back" -> Return(ctl.at)
    /\ Caller /\ NoChan

\* Distinct: seen := make(map[T]bool)
\*           for val := range f.source {
\*               if !seen[val] { seen[val] = true; if !yield(val) { return } } }
\* (DistinctSource without `seen[val] = true`)
DistinctSourceForgets ==
    /\ AtOp("Distinct")
    /\ CASE ctl.k = "call" -> RangeOver(ctl.at, Fr, Fr.f.src, Fr.id \o <<1>>, <<>>)
         [] ctl.k = "yield" ->
                IF ctl.v \notin Fr.seen
                THEN Yield(ctl.at, Fr, ctl.v, <<>>)
                ELSE Continue(ctl.at, Fr, <<>>)
         [] ctl.k = "ret" -> ReturnUnlessYield(ctl.at, Fr, ctl.b)
         [] ctl.k = "back" -> Return(ctl.at)
    /\ Caller /\ NoChan

\* (DistinctSource with a seen map that a Distinct running in the other
\* goroutine writes to as well)
DistinctSourceSharedSeen ==
    /\ AtOp("Distinct")
    /\ CASE ctl.k = "call" -> RangeOver(ctl.at, Fr, Fr.f.src, Fr.id \o <<1>>, <<>>)
         [] ctl.k = "yield" ->
                IF ctl.v \notin Fr.seen
                       \cup UNION UNION {{hist[h].stack[i].seen :
                                               i \in 1..Len(hist[h].stack)} :
                                            h \in 1..Len(hist)}
                THEN Yield(ctl.at, [Fr EXCEPT !.seen = @ \cup {ctl.v}], ctl.v, <<>>)
                ELSE Continue(ctl.at, Fr, <<>>)
         [] ctl.k = "ret" -> ReturnUnlessYield(ctl.at, Fr, ctl.b)
         [] ctl.k = "back" -> Return(ctl.at)
    /\ Caller /\ NoChan

DistinctSource ==
    /\ AtOp("Distinct")
    /\ CASE ctl.k = "call" -> RangeOver(ctl.at, Fr, Fr.f.src, Fr.id \o <<1>>, <<>>)
         [] ctl.k = "yield" ->
                IF ctl.v \notin Fr.seen
                THEN Yield(ctl.at, [Fr EXCEPT !.seen = @ \cup {ctl.v}], ctl.v, <<>>)
                ELSE Continue(ctl.at, Fr, <<>>)
         [] ctl.k = "ret" -> ReturnUnlessYield(ctl.at, Fr, ctl.b)
         [] ctl.k = "back" -> Return(ctl.at)
    /\ Caller /\ NoChan

-----------------------------------------------------------------------------
(* Producers of the multi-source operators *)

\* Concat: for val := range f.source { if !yield(val) { return } }
\*         for val := range other.source { if !yield(val) { return } }
\* (ConcatSource whose first loop ends with `break` in place of `return`)
ConcatSourceBreak ==
    /\ AtOp("Concat")
    /\ CASE ctl.k = "call" -> RangeOver(ctl.at, Fr, Fr.f.src, Fr.id \o <<1>>, <<>>)
         [] ctl.k = "yield" -> Yield(ctl.at, Fr, ctl.v, <<>>)
         [] ctl.k = "ret" -> ReturnUnlessYield(ctl.at, Fr, ctl.b)
         [] ctl.k = "back" ->
                IF Fr.pc = "second" THEN Return(ctl.at)
                ELSE RangeOver(ctl.at, [Fr EXCEPT !.pc = "second", !.stop = FALSE],
                               Fr.f.other, Fr.id \o <<2>>, <<>>)
    /\ Caller /\ NoChan

ConcatSource ==
    /\ AtOp("Concat")
    /\ CASE ctl.k = "call" -> RangeOver(ctl.at, Fr, Fr.f.src, Fr.id \o <<1>>, <<>>)
         [] ctl.k = "yield" -> Yield(ctl.at, Fr, ctl.v, <<>>)
         [] ctl.k = "ret" -> ReturnUnlessYield(ctl.at, Fr, ctl.b)
         [] ctl.k = "back" ->
                IF Fr.stop \/ Fr.pc = "second" THEN Return(ctl.at)
                ELSE RangeOver(ctl.at, [Fr EXCEPT !.pc = "second"], Fr.f.other,
                               Fr.id \o <<2>>, <<>>)
    /\ Caller /\ NoChan

\* f.Merge(others...):
\*     for val := range f.source { if !yield(val) { return } }
\*     for _, other := range others {
\*         for val := range other.source { if !yield(val) { return } } }
FlowMergeSource ==
    /\ AtOp("FlowMerge")
    /\ CASE ctl.k = "call" -> RangeOver(ctl.at, Fr, Fr.f.src, Fr.id \o <<1>>, <<>>)
         [] ctl.k = "yield" -> Yield(ctl.at, Fr, ctl.v, <<>>)
         [] ctl.k = "ret" -> ReturnUnlessYield(ctl.at, Fr, ctl.b)
         [] ctl.k = "back" ->
                IF Fr.stop \/ Fr.idx >= Len(Fr.f.others) THEN Return(ctl.at)
                ELSE RangeOver(ctl.at, [Fr EXCEPT !.idx = @ + 1],
                               Fr.f.others[Fr.idx + 1], Fr.id \o <<Fr.idx + 2>>, <<>>)
    /\ Caller /\ NoChan

\* Merge(flows...):
\*     for _, f := range flows {
\*         for val := range f.source { if !yield(val) { return } } }
MergeSource ==
    /\ AtOp("Merge")
    /\ CASE ctl.k \in {"call", "back"} ->
                IF Fr.stop \/ Fr.idx >= Len(Fr.f.flows) THEN Return(ctl.at)
                ELSE RangeOver(ctl.at, [Fr EXCEPT !.idx = @ + 1],
                               Fr.f.flows[Fr.idx + 1], Fr.id \o <<Fr.idx + 1>>, <<>>)
         [] ctl.k = "yield" -> Yield(ctl.at, Fr, ctl.v, <<>>)
         [] ctl.k = "ret" -> ReturnUnlessYield(ctl.at, Fr, ctl.b)
    /\ Caller /\ NoChan

\* the sub-flows a FlatMap mapper returns
FlowMapper(m, v) ==
    CASE m = "twice" -> NewFlow(<<v, v>>)
      [] m = "upTo" -> Range(0, Min(v, MaxLen))

\* FlatMap: for val := range f.source {
\*              subFlow := mapper(val)
\*              for subVal := range subFlow.source { if !yield(subVal) { return } } }
\* (FlatMapSource going on with the next source element after the inner loop
\* body has returned)
FlatMapSourceKeepsGoing ==
    /\ AtOp("FlatMap")
    /\ CASE ctl.k = "call" -> RangeOver(ctl.at, Fr, Fr.f.src, Fr.id \o <<1>>, <<>>)
         [] ctl.k = "yield" /\ Fr.pc = "loop" ->
                RangeOver(ctl.at, [Fr EXCEPT !.pc = "inner"],
                          FlowMapper(Fr.f.mapper, ctl.v), Fr.id \o <<2>>,
                          <<Fn(Fr, Fr.f.mapper, ctl.v)>>)
         [] ctl.k = "yield" /\ Fr.pc = "inner" -> Yield(ctl.at, Fr, ctl.v, <<>>)
         [] ctl.k = "ret" -> ReturnUnlessYield(ctl.at, Fr, ctl.b)
         [] ctl.k = "back" /\ Fr.pc = "inner" ->
                \* the inner loop is over: the outer loop body ends, or returns
                \* when the inner loop body has returned
                /\ stack' = [stack EXCEPT ![ctl.at].pc = "loop"]
                /\ ctl' = Returned(Yielder(ctl.at), TRUE)
                /\ trace' = trace
         [] ctl.k = "back" /\ Fr.pc = "loop" -> Return(ctl.at)
    /\ Caller /\ NoChan

FlatMapSource ==
    /\ AtOp("FlatMap")
    /\ CASE ctl.k = "call" -> RangeOver(ctl.at, Fr, Fr.f.src, Fr.id \o <<1>>, <<>>)
         [] ctl.k = "yield" /\ Fr.pc = "loop" ->
                RangeOver(ctl.at, [Fr EXCEPT !.pc = "inner"],
                          FlowMapper(Fr.f.mapper, ctl.v), Fr.id \o <<2>>,
                          <<Fn(Fr, Fr.f.mapper, ctl.v)>>)
         [] ctl.k = "yield" /\ Fr.pc = "inner" -> Yield(ctl.at, Fr, ctl.v, <<>>)
         [] ctl.k = "ret" -> ReturnUnlessYield(ctl.at, Fr, ctl.b)
         [] ctl.k = "back" /\ Fr.pc = "inner" ->
                \* the inner loop is over: the outer loop body ends, or returns
                \* when the inner loop body has returned
                /\ stack' = [stack EXCEPT ![ctl.at].pc = "loop"]
                /\ ctl' = Returned(Yielder(ctl.at), ~Fr.stop)
                /\ trace' = trace
         [] ctl.k = "back" /\ Fr.pc = "loop" -> Return(ctl.at)
    /\ Caller /\ NoChan

\* Combine / CombineWith:
\*     for val := range f1.source { vals1 = append(vals1, val) }
\*     for val := range f2.source { vals2 = append(vals2, val) }
\*     minLen := min(len(vals2), len(vals1))
\*     for i := range minLen { if !yield(<result i>) { return } }
CombineLoop(fr, result(_, _), evs(_, _)) ==
    IF Stopped THEN Return(ctl.at)
    ELSE IF fr.idx < Min(Len(fr.buf2), Len(fr.buf))
         THEN Yield(ctl.at, [fr EXCEPT !.idx = @ + 1],
                    result(fr.buf[fr.idx + 1], fr.buf2[fr.idx + 1]),
                    evs(fr.buf[fr.idx + 1], fr.buf2[fr.idx + 1]))
         ELSE Return(ctl.at)

CombineBuffer(result(_, _), evs(_, _)) ==
    CASE ctl.k = "call" -> RangeOver(ctl.at, Fr, Fr.f.src, Fr.id \o <<1>>, <<>>)
      [] ctl.k = "yield" /\ Fr.pc = "loop" ->
             Continue(ctl.at, [Fr EXCEPT !.buf = Append(@, ctl.v)], <<>>)
      [] ctl.k = "yield" /\ Fr.pc = "second" ->
             Continue(ctl.at, [Fr EXCEPT !.buf2 = Append(@, ctl.v)], <<>>)
      [] ctl.k = "back" /\ Fr.pc = "loop" ->
             RangeOver(ctl.at, [Fr EXCEPT !.pc = "second"], Fr.f.other, Fr.id \o <<2>>, <<>>)
      [] ctl.k = "back" /\ Fr.pc = "second" ->
             CombineLoop([Fr EXCEPT !.pc = "emit"], result, evs)
      [] ctl.k = "ret" -> CombineLoop(Fr, result, evs)

Pair(a, b) == [First |-> a, Second |-> b]

\* (CombineSource yielding Pair{First: vals2[i], Second: vals1[i]})
CombineSourceSwapped ==
    /\ AtOp("Combine")
    /\ CombineBuffer(LAMBDA a, b : Pair(b, a), LAMBDA a, b : <<>>)
    /\ Caller /\ NoChan

CombineSource ==
    /\ AtOp("Combine")
    /\ CombineBuffer(LAMBDA a, b : Pair(a, b), LAMBDA a, b : <<>>)
    /\ Caller /\ NoChan

\* (CombineWithSource with `if len(vals1) == 0 { return }` after the first loop)
CombineWithSourceShortcut ==
    /\ AtOp("CombineWith")
    /\ IF ctl.k = "back" /\ Fr.pc = "loop" /\ Fr.buf = <<>>
       THEN Return(ctl.at)
       ELSE CombineBuffer(LAMBDA a, b : Combiner(Fr.f.combiner, a, b),
                          LAMBDA a, b : <<Fn(Fr, Fr.f.combiner, <<a, b>>)>>)
    /\ Caller /\ NoChan

CombineWithSource ==
    /\ AtOp("CombineWith")
    /\ CombineBuffer(LAMBDA a, b : Combiner(Fr.f.combiner, a, b),
                     LAMBDA a, b : <<Fn(Fr, Fr.f.combiner, <<a, b>>)>>)
    /\ Caller /\ NoChan

-----------------------------------------------------------------------------
(* Producers of the buffering operators *)

\* Chunk: chunk := make([]T, 0, size)
\*        for val := range f.source {
\*            chunk = append(chunk, val)
\*            if len(chunk) == size {
\*                if !yield(chunkCopy) { return }; chunk = chunk[:0] } }
\*        if len(chunk) > 0 { yield(chunk) }
\* (ChunkSource with `break` in place of `return` in the loop body)
ChunkSourceBreak ==
    /\ AtOp("Chunk")
    /\ CASE ctl.k = "call" -> RangeOver(ctl.at, Fr, Fr.f.src, Fr.id \o <<1>>, <<>>)
         [] ctl.k = "yield" ->
                LET chunk == Append(Fr.buf, ctl.v)
                IN  IF Len(chunk) = Fr.f.size
                    THEN Yield(ctl.at, [Fr EXCEPT !.buf = chunk], chunk, <<>>)
                    ELSE Continue(ctl.at, [Fr EXCEPT !.buf = chunk], <<>>)
         [] ctl.k = "ret" /\ Fr.pc = "loop" ->
                IF ~ctl.b THEN BodyReturn(ctl.at, Fr, <<>>)
                ELSE Continue(ctl.at, [Fr EXCEPT !.buf = <<>>], <<>>)
         [] ctl.k = "back" ->
                IF Len(Fr.buf) > 0
                THEN Yield(ctl.at, [Fr EXCEPT !.pc = "tail"], Fr.buf, <<>>)
                ELSE Return(ctl.at)
         [] ctl.k = "ret" /\ Fr.pc = "tail" -> Return(ctl.at)
    /\ Caller /\ NoChan

\* (ChunkSource without the trailing `if len(chunk) > 0 { yield(chunk) }`)
ChunkSourceNoTail ==
    /\ AtOp("Chunk")
    /\ CASE ctl.k = "call" -> RangeOver(ctl.at, Fr, Fr.f.src, Fr.id \o <<1>>, <<>>)
         [] ctl.k = "yield" ->
                LET chunk == Append(Fr.buf, ctl.v)
                IN  IF Len(chunk) = Fr.f.size
                    THEN Yield(ctl.at, [Fr EXCEPT !.buf = chunk], chunk, <<>>)
                    ELSE Continue(ctl.at, [Fr EXCEPT !.buf = chunk], <<>>)
         [] ctl.k = "ret" ->
                IF ~ctl.b THEN BodyReturn(ctl.at, Fr, <<>>)
                ELSE Continue(ctl.at, [Fr EXCEPT !.buf = <<>>], <<>>)
         [] ctl.k = "back" -> Return(ctl.at)
    /\ Caller /\ NoChan

ChunkSource ==
    /\ AtOp("Chunk")
    /\ CASE ctl.k = "call" -> RangeOver(ctl.at, Fr, Fr.f.src, Fr.id \o <<1>>, <<>>)
         [] ctl.k = "yield" ->
                LET chunk == Append(Fr.buf, ctl.v)
                IN  IF Len(chunk) = Fr.f.size
                    THEN Yield(ctl.at, [Fr EXCEPT !.buf = chunk], chunk, <<>>)
                    ELSE Continue(ctl.at, [Fr EXCEPT !.buf = chunk], <<>>)
         [] ctl.k = "ret" /\ Fr.pc = "loop" ->
                IF ~ctl.b THEN BodyReturn(ctl.at, Fr, <<>>)
                ELSE Continue(ctl.at, [Fr EXCEPT !.buf = <<>>], <<>>)
         [] ctl.k = "back" ->
                IF ~Fr.stop /\ Len(Fr.buf) > 0
                THEN Yield(ctl.at, [Fr EXCEPT !.pc = "tail"], Fr.buf, <<>>)
                ELSE Return(ctl.at)
         [] ctl.k = "ret" /\ Fr.pc = "tail" -> Return(ctl.at)
    /\ Caller /\ NoChan

\* Window's inner loop:
\*     for len(buffer) >= size {
\*         window := copy of buffer[:size]
\*         if !yield(window) { return }
\*         if step >= len(buffer) { buffer = nil } else { buffer = buffer[step:] } }
WindowLoop(fr) ==
    IF Len(fr.buf) >= fr.f.size
    THEN Yield(ctl.at, fr, SubSeq(fr.buf, 1, fr.f.size), <<>>)
    ELSE Continue(ctl.at, fr, <<>>)

\* Window: var buffer []T
\*         for val := range f.source { buffer = append(buffer, val); <inner loop> }
\* (WindowSource with `for len(buffer) > size` as the inner loop's condition)
WindowSourceLate ==
    /\ AtOp("Window")
    /\ LET Loop(fr) == IF Len(fr.buf) > fr.f.size
                       THEN Yield(ctl.at, fr, SubSeq(fr.buf, 1, fr.f.size), <<>>)
                       ELSE Continue(ctl.at, fr, <<>>)
       IN  CASE ctl.k = "call" -> RangeOver(ctl.at, Fr, Fr.f.src, Fr.id \o <<1>>, <<>>)
             [] ctl.k = "yield" -> Loop([Fr EXCEPT !.buf = Append(@, ctl.v)])
             [] ctl.k = "ret" ->
                    IF ~ctl.b THEN BodyReturn(ctl.at, Fr, <<>>)
                    ELSE IF Fr.f.step >= Len(Fr.buf)
                         THEN Loop([Fr EXCEPT !.buf = <<>>])
                         ELSE Loop([Fr EXCEPT !.buf = SubSeq(@, Fr.f.step + 1, Len(@))])
             [] ctl.k = "back" -> Return(ctl.at)
    /\ Caller /\ NoChan

WindowSource ==
    /\ AtOp("Window")
    /\ CASE ctl.k = "call" -> RangeOver(ctl.at, Fr, Fr.f.src, Fr.id \o <<1>>, <<>>)
         [] ctl.k = "yield" -> WindowLoop([Fr EXCEPT !.buf = Append(@, ctl.v)])
         [] ctl.k = "ret" ->
                IF ~ctl.b THEN BodyReturn(ctl.at, Fr, <<>>)
                ELSE IF Fr.f.step >= Len(Fr.buf)
                     THEN WindowLoop([Fr EXCEPT !.buf = <<>>])
                     ELSE WindowLoop([Fr EXCEPT !.buf = SubSeq(@, Fr.f.step + 1, Len(@))])
         [] ctl.k = "back" -> Return(ctl.at)
    /\ Caller /\ NoChan

KeyValue(key, value) == [Key |-> key, Value |-> value]

\* (GroupBy's loop body with `result[key] = []T{val}`)
GroupIntoOverwrites(result, key, val) ==
    [k \in DOMAIN result \cup {key} |-> IF k = key THEN <<val>> ELSE result[k]]

\* GroupBy's loop body: key := keyFunc(val); result[key] = append(result[key], val)
GroupInto(result, key, val) ==
    IF key \in DOMAIN result
    THEN [result EXCEPT ![key] = Append(@, val)]
    ELSE [k \in DOMAIN result \cup {key} |-> IF k = key THEN <<val>> ELSE result[k]]

\* GroupByFlow: groups := GroupBy(f, keyFunc)
\*              for key, values := range groups {
\*                  if !yield(KeyValue{key, values}) { return } }
\* (Go ranges over a map in an unspecified order)
GroupByFlowSource ==
    /\ AtOp("GroupByFlow")
    /\ CASE ctl.k = "call" -> RangeOver(ctl.at, Fr, Fr.f.src, Fr.id \o <<1>>, <<>>)
         [] ctl.k = "yield" ->
                Continue(ctl.at,
                         [Fr EXCEPT !.buf = GroupInto(@, KeyFunc(Fr.f.keyFunc, ctl.v), ctl.v)],
                         <<Fn(Fr, Fr.f.keyFunc, ctl.v)>>)
         [] ctl.k \in {"back", "ret"} ->
                IF Stopped \/ DOMAIN Fr.buf \subseteq Fr.seen THEN Return(ctl.at)
                ELSE \E key \in DOMAIN Fr.buf \ Fr.seen :
                         Yield(ctl.at, [Fr EXCEPT !.seen = @ \cup {key}],
                               KeyValue(key, Fr.buf[key]), <<>>)
    /\ Caller /\ NoChan

-----------------------------------------------------------------------------
(* Terminal operations: frame 0, the caller of the outermost producer *)

NewRes ==
    [out |-> <<>>, stop |-> FALSE, count |-> 0, found |-> FALSE, val |-> 0,
     groups |-> <<>>, matching |-> <<>>, notMatching |-> <<>>,
     ch |-> [buf |-> <<>>, closed |-> FALSE, closes |-> 0, rcvd |-> <<>>,
             over |-> FALSE, left |-> FALSE]]

\* the caller holds a Flow[int]
Ints == ElemType(flow) = "int"

\* the terminal operation calls f.source with its loop body as the yield
Begin(kind, arg, init) ==
    /\ phase = "build"
    /\ phase' = "eval"
    /\ term' = [kind |-> kind, arg |-> arg]
    /\ res' = [NewRes EXCEPT !.val = init]
    /\ stack' = <<NewFrame(flow, <<>>, 0)>>
    /\ ctl' = Called(1)
    /\ trace' = <<<<"terminal", kind>>, <<"start", <<>>>>>>
    /\ UNCHANGED <<flow, calls, chan, sendq, base, hist, err>>

AtTerminal(kind, k) ==
    /\ phase = "eval"
    /\ term.kind = kind
    /\ ctl.at = 0
    /\ ctl.k = k

\* the terminal's loop body returns b to the outermost producer's yield call
\* (b is false when the body executes `return`)
SinkReturns(r, b, evs) ==
    /\ res' = [r EXCEPT !.stop = ~b]
    /\ ctl' = Returned(1, b)
    /\ trace' = trace \o evs \o <<<<"sink", ctl.v, b>>>>
    /\ UNCHANGED <<flow, calls, phase, term, stack, chan, sendq, base, hist, err>>

\* f.source has returned: the terminal operation returns its result
Finish ==
    /\ phase' = "done"
    /\ ctl' = Idle
    /\ trace' = trace \o <<<<"result", term.kind>>>>
    /\ UNCHANGED <<flow, calls, term, res, stack, chan, sendq, base, hist, err>>

TermFn(name, arg) == <<"fn", <<0>>, name, arg>>

\* Collect: for val := range f.source { result = append(result, val) }; return result
Collect ==
    \/ Begin("Collect", "", 0)
    \/ AtTerminal("Collect", "yield")
         /\ SinkReturns([res EXCEPT !.out = Append(@, ctl.v)], TRUE, <<>>)
    \/ AtTerminal("Collect", "back") /\ Finish

\* Count: for range f.source { count++ }; return count
Count ==
    \/ Begin("Count", "", 0)
    \/ AtTerminal("Count", "yield")
         /\ SinkReturns([res EXCEPT !.count = @ + 1], TRUE, <<>>)
    \/ AtTerminal("Count", "back") /\ Finish

\* Reduce: result := initial
\*         for val := range f.source { result = reducer(result, val) }; return result
Reduce ==
    \/ Ints /\ Begin("Reduce", "sum", 0)
    \/ AtTerminal("Reduce", "yield")
         /\ SinkReturns([res EXCEPT !.val = Combiner(term.arg, @, ctl.v)], TRUE,
                        <<TermFn(term.arg, <<res.val, ctl.v>>)>>)
    \/ AtTerminal("Reduce", "back") /\ Finish

\* First: for val := range f.source { return val, true }; return zero, false
\* (First without the `return` in its loop body)
FirstKeepsPulling ==
    \/ Begin("First", "", 0)
    \/ AtTerminal("First", "yield")
         /\ SinkReturns([res EXCEPT !.val = ctl.v, !.found = TRUE], TRUE, <<>>)
    \/ AtTerminal("First", "back") /\ Finish

First ==
    \/ Begin("First", "", 0)
    \/ AtTerminal("First", "yield")
         /\ SinkReturns([res EXCEPT !.val = ctl.v, !.found = TRUE], FALSE, <<>>)
    \/ AtTerminal("First", "back") /\ Finish

\* Last: for val := range f.source { last = val; found = true }; return last, found
Last ==
    \/ Begin("Last", "", 0)
    \/ AtTerminal("Last", "yield")
         /\ SinkReturns([res EXCEPT !.val = ctl.v, !.found = TRUE], TRUE, <<>>)
    \/ AtTerminal("Last", "back") /\ Finish

\* AnyMatch: for val := range f.source { if predicate(val) { return true } }; return false
\* NoneMatch: return !f.AnyMatch(predicate)
AnyMatch ==
    \/ \E kind \in {"AnyMatch", "NoneMatch"}, p \in Predicates : Ints /\ Begin(kind, p, 0)
    \/ \E kind \in {"AnyMatch", "NoneMatch"} :
         /\ AtTerminal(kind, "yield")
         /\ IF Predicate(term.arg, ctl.v)
            THEN SinkReturns([res EXCEPT !.found = TRUE], FALSE, <<TermFn(term.arg, ctl.v)>>)
            ELSE SinkReturns(res, TRUE, <<TermFn(term.arg, ctl.v)>>)
    \/ \E kind \in {"AnyMatch", "NoneMatch"} : AtTerminal(kind, "back") /\ Finish

\* AllMatch: for val := range f.source { if !predicate(val) { return false } }; return true
AllMatch ==
    \/ \E p \in Predicates : Ints /\ Begin("AllMatch", p, 0)
    \/ AtTerminal("AllMatch", "yield")
         /\ IF ~Predicate(term.arg, ctl.v)
            THEN SinkReturns([res EXCEPT !.found = TRUE], FALSE, <<TermFn(term.arg, ctl.v)>>)
            ELSE SinkReturns(res, TRUE, <<TermFn(term.arg, ctl.v)>>)
    \/ AtTerminal("AllMatch", "back") /\ Finish

\* FindFirst: for val := range f.source { if predicate(val) { return val, true } }
\*            return zero, false
FindFirst ==
    \/ \E p \in Predicates : Ints /\ Begin("FindFirst", p, 0)
    \/ AtTerminal("FindFirst", "yield")
         /\ IF Predicate(term.arg, ctl.v)
            THEN SinkReturns([res EXCEPT !.val = ctl.v, !.found = TRUE], FALSE,
                             <<TermFn(term.arg, ctl.v)>>)
            ELSE SinkReturns(res, TRUE, <<TermFn(term.arg, ctl.v)>>)
    \/ AtTerminal("FindFirst", "back") /\ Finish

\* ForEachFunc: for val := range f.source { action(val) }
ForEachFunc ==
    \/ Begin("ForEachFunc", "print", 0)
    \/ AtTerminal("ForEachFunc", "yield")
         /\ SinkReturns(res, TRUE, <<TermFn(term.arg, ctl.v)>>)
    \/ AtTerminal("ForEachFunc", "back") /\ Finish

\* GroupBy: result := make(map[K][]T)
\*          for val := range f.source {
\*              key := keyFunc(val); result[key] = append(result[key], val) }
GroupBy ==
    \/ \E k \in KeyFuncs : Ints /\ Begin("GroupBy", k, 0)
    \/ AtTerminal("GroupBy", "yield")
         /\ SinkReturns([res EXCEPT !.groups = GroupInto(@, KeyFunc(term.arg, ctl.v), ctl.v)],
                        TRUE, <<TermFn(term.arg, ctl.v)>>)
    \/ AtTerminal("GroupBy", "back") /\ Finish

\* Partition: for val := range f.source {
\*                if predicate(val) { matching = append(matching, val) }
\*                else { notMatching = append(notMatching, val) } }
\* (Partition appending every element to matching)
PartitionAllMatching ==
    \/ \E p \in Predicates : Ints /\ Begin("Partition", p, 0)
    \/ AtTerminal("Partition", "yield")
         /\ SinkReturns([res EXCEPT !.matching = Append(@, ctl.v)], TRUE,
                         <<TermFn(term.arg, ctl.v)>>)
    \/ AtTerminal("Partition", "back") /\ Finish

Partition ==
    \/ \E p \in Predicates : Ints /\ Begin("Partition", p, 0)
    \/ AtTerminal("Partition", "yield")
         /\ IF Predicate(term.arg, ctl.v)
            THEN SinkReturns([res EXCEPT !.matching = Append(@, ctl.v)], TRUE,
                             <<TermFn(term.arg, ctl.v)>>)
            ELSE SinkReturns([res EXCEPT !.notMatching = Append(@, ctl.v)], TRUE,
                             <<TermFn(term.arg, ctl.v)>>)
    \/ AtTerminal("Partition", "back") /\ Finish

\* the arguments a caller may hand to ForEach(fn any), and which are functions
ForEachArgs == {"print", "notAFunction", "nil"}
IsFunc(fn) == fn = "print"

\* ForEach: if err := internal.ExecuteForEach(f.source, fn); err != nil { panic(err) }
\* ExecuteForEach: fnValue := reflect.ValueOf(fn); fnType := fnValue.Type()
\*                 if fnType.Kind() != reflect.Func { return &invalidFunctionError{} }
\*                 for val := range source { fnValue.Call(prepareArgs(fnType, val)) }
\* (reflect.ValueOf(nil) is the zero Value, and Type() of the zero Value panics)
ForEach ==
    \/ \E fn \in ForEachArgs :
         IF IsFunc(fn) THEN Begin("ForEach", fn, 0)
         ELSE /\ phase = "build"
              /\ phase' = "panic"
              /\ err' = IF fn = "nil"
                        THEN "reflect: call of reflect.Value.Type on zero Value"
                        ELSE "ForEach: argument must be a function"
              /\ term' = [kind |-> "ForEach", arg |-> fn]
              /\ UNCHANGED <<flow, calls, res, stack, ctl, trace, chan, sendq, base, hist>>
    \/ AtTerminal("ForEach", "yield")
         /\ SinkReturns(res, TRUE, <<TermFn(term.arg, ctl.v)>>)
    \/ AtTerminal("ForEach", "back") /\ Finish

\* ToChannel: ch := make(chan T, bufferSize)
\*            go func() { defer close(ch); for val := range f.source { ch <- val } }()
\*            return ch
\* res.ch is the channel returned: its buffer, whether and how often it was
\* closed, and on the receiving side the values received so far (rcvd), whether
\* a receive has found the channel closed and empty (over), and whether the
\* receiver has walked away from the channel (left). A send completes when the
\* buffer has room, or when the buffer is full (always, for bufferSize 0) and
\* the receiver takes the oldest value in the same step.
BufferSizes == 0..ChanCap

\* (ToChannel without `defer close(ch)`)
ToChannelNoClose ==
    \/ \E bufferSize \in BufferSizes : Ints /\ Begin("ToChannel", bufferSize, 0)
    \/ AtTerminal("ToChannel", "yield")
         /\ \/ /\ Len(res.ch.buf) < term.arg
               /\ SinkReturns([res EXCEPT !.ch.buf = Append(@, ctl.v)], TRUE, <<>>)
            \/ /\ Len(res.ch.buf) = term.arg
               /\ ~res.ch.left
               /\ LET q == Append(res.ch.buf, ctl.v)
                  IN  SinkReturns([res EXCEPT !.ch.buf = Tail(q),
                                              !.ch.rcvd = Append(@, Head(q))], TRUE, <<>>)
    \/ AtTerminal("ToChannel", "back") /\ Finish

\* (ToChannel sending into a buffer without a bound)
ToChannelUnbounded ==
    \/ \E bufferSize \in BufferSizes : Ints /\ Begin("ToChannel", bufferSize, 0)
    \/ AtTerminal("ToChannel", "yield")
         /\ SinkReturns([res EXCEPT !.ch.buf = Append(@, ctl.v)], TRUE, <<>>)
    \/ AtTerminal("ToChannel", "back")
         /\ res' = [res EXCEPT !.ch.closed = TRUE, !.ch.closes = @ + 1]
         /\ phase' = "done"
         /\ ctl' = Idle
         /\ trace' = trace \o <<<<"result", term.kind>>>>
         /\ UNCHANGED <<flow, calls, term, stack, chan, sendq, base, hist, err>>

ToChannel ==
    \/ \E bufferSize \in BufferSizes : Ints /\ Begin("ToChannel", bufferSize, 0)
    \/ AtTerminal("ToChannel", "yield")
         /\ \/ /\ Len(res.ch.buf) < term.arg
               /\ SinkReturns([res EXCEPT !.ch.buf = Append(@, ctl.v)], TRUE, <<>>)
            \/ /\ Len(res.ch.buf) = term.arg
               /\ ~res.ch.left
               /\ LET q == Append(res.ch.buf, ctl.v)
                  IN  SinkReturns([res EXCEPT !.ch.buf = Tail(q),
                                              !.ch.rcvd = Append(@, Head(q))], TRUE, <<>>)
    \/ AtTerminal("ToChannel", "back")
         \* f.source has returned: the deferred close(ch) runs, the goroutine ends
         /\ res' = [res EXCEPT !.ch.closed = TRUE, !.ch.closes = @ + 1]
         /\ phase' = "done"
         /\ ctl' = Idle
         /\ trace' = trace \o <<<<"result", term.kind>>>>
         /\ UNCHANGED <<flow, calls, term, stack, chan, sendq, base, hist, err>>

\* The consumer of the channel ToChannel returned: for val := range ch { ... }
Receiver ==
    /\ phase \in {"eval", "done"}
    /\ term.kind = "ToChannel"
    /\ ~res.ch.over /\ ~res.ch.left
    /\ IF res.ch.buf # <<>>
       THEN res' = [res EXCEPT !.ch.buf = Tail(@), !.ch.rcvd = Append(@, Head(res.ch.buf))]
       ELSE /\ res.ch.closed
            /\ res' = [res EXCEPT !.ch.over = TRUE]
    /\ UNCHANGED <<flow, calls, phase, term, stack, ctl, trace, chan, sendq, base, hist, err>>

\* A consumer that stops receiving and never comes back to the channel
ReceiverLeaves ==
    /\ phase \in {"eval", "done"}
    /\ term.kind = "ToChannel"
    /\ ~res.ch.over /\ ~res.ch.left
    /\ res' = [res EXCEPT !.ch.left = TRUE]
    /\ UNCHANGED <<flow, calls, phase, term, stack, ctl, trace, chan, sendq, base, hist, err>>

\* Any consumer of a producer (a terminal operation or the loop body of an
\* enclosing operator): a loop body that may return at any element
Consume ==
    \/ Begin("Consume", "", 0)
    \/ AtTerminal("Consume", "yield")
         /\ \E b \in BOOLEAN : SinkReturns([res EXCEPT !.out = Append(@, ctl.v)], b, <<>>)
    \/ AtTerminal("Consume", "back") /\ Finish

-----------------------------------------------------------------------------
(* The caller's program: build a pipeline, run a terminal operation on it, and
   possibly build and run a second one from the same source *)

Build(name, arg, f) ==
    /\ phase = "build"
    /\ flow' = f
    /\ calls' = Append(calls, <<name, arg>>)
    /\ UNCHANGED <<phase, term, res, stack, ctl, trace, chan, sendq, base, hist, err>>

\* panic(msg) in a constructor: the caller's program ends there
Panic(name, arg, msg) ==
    /\ phase = "build"
    /\ phase' = "panic"
    /\ err' = msg
    /\ calls' = Append(calls, <<name, arg>>)
    /\ UNCHANGED <<flow, term, res, stack, ctl, trace, chan, sendq, base, hist>>

CallFilter(P) == \E p \in P : Ints /\ Build("Filter", p, Filter(flow, p))
CallMap == \E m \in Mappers : Ints /\ Build("Map", m, Map(flow, m))
CallMapTo == \E m \in Mappers : Ints /\ Build("MapTo", m, MapTo(flow, m))
CallPeek == Build("Peek", "print", Peek(flow, "print"))
CallTake(N) == \E n \in N : Build("Take", n, Take(flow, n))
CallSkip(N) == \E n \in N : Build("Skip", n, Skip(flow, n))
CallTakeWhile == \E p \in Predicates : Ints /\ Build("TakeWhile", p, TakeWhile(flow, p))
CallSkipWhile == \E p \in Predicates : Ints /\ Build("SkipWhile", p, SkipWhile(flow, p))
CallDistinct == Ints /\ Build("Distinct", "", Distinct(flow))
CallFlatMap == \E m \in FlowMappers : Ints /\ Build("FlatMap", m, FlatMap(flow, m))
\* (GroupByFlow calling GroupBy(f, keyFunc) outside the producer closure)
CallGroupByFlowEager ==
    \E k \in KeyFuncs :
        /\ phase = "build"
        /\ flow' = GroupByFlow(flow, k)
        /\ calls' = Append(calls, <<"GroupByFlow", k>>)
        /\ trace' = trace \o <<<<"start", Inner>>>>
        /\ UNCHANGED <<phase, term, res, stack, ctl, chan, sendq, base, hist, err>>

CallGroupByFlow == \E k \in KeyFuncs : Ints /\ Build("GroupByFlow", k, GroupByFlow(flow, k))

\* Chunk: if size <= 0 { panic("chunk size must be positive") }
\* (Chunk without the `if size <= 0 { panic(...) }` at construction)
CallChunkUnchecked(S) == \E size \in S : Build("Chunk", size, Chunk(flow, size))

CallChunk(S) ==
    \E size \in S :
        IF size <= 0 THEN Panic("Chunk", size, "chunk size must be positive")
        ELSE Build("Chunk", size, Chunk(flow, size))

\* Window: if size <= 0 { panic("window size must be positive") }
\*         if step <= 0 { panic("window step must be positive") }
CallWindow(S) ==
    \E size \in S, step \in S :
        IF size <= 0 THEN Panic("Window", <<size, step>>, "window size must be positive")
        ELSE IF step <= 0
             THEN Panic("Window", <<size, step>>, "window step must be positive")
             ELSE Build("Window", <<size, step>>, Window(flow, size, step))

CallConcat(O) == \E other \in O : Ints /\ Build("Concat", other, Concat(flow, other))
CallFlowMerge(OS) == \E others \in OS : Ints /\ Build("FlowMerge", others, FlowMerge(flow, others))
\* Merge(flows...) or Merge(flow, flows...): the caller's flow may be the first of
\* the merged flows
CallMerge(OS) ==
    \E others \in OS, first \in BOOLEAN :
        Build("Merge", [first |-> first, others |-> others],
              Merge((IF first THEN <<flow>> ELSE <<>>) \o others))
CallCombine(O) == \E other \in O : Ints /\ Build("Combine", other, Combine(flow, other))
CallCombineWith(O) ==
    \E other \in O, c \in Combiners :
        Ints /\ Build("CombineWith", <<other, c>>, CombineWith(flow, other, c))

Fresh == calls = <<>>

\* the terminal operation has returned; the caller goes on with the source Flow
Rerun ==
    /\ phase = "done"
    /\ hist = <<>>
    /\ hist' = <<[flow |-> flow, calls |-> calls, term |-> term, res |-> res,
                  trace |-> trace]>>
    /\ phase' = "build"
    /\ flow' = base
    /\ calls' = <<>>
    /\ trace' = <<>>
    /\ UNCHANGED <<term, res, stack, ctl, chan, sendq, base, err>>

\* the terminal operation has returned; the caller goes on with the same Flow
Again ==
    /\ phase = "done"
    /\ hist = <<>>
    /\ hist' = <<[flow |-> flow, calls |-> calls, term |-> term, res |-> res,
                  trace |-> trace]>>
    /\ phase' = "build"
    /\ trace' = <<>>
    /\ UNCHANGED <<flow, calls, term, res, stack, ctl, chan, sendq, base, err>>

\* Two goroutines evaluate a Flow each. The one that is running has its state
\* in the variables; the state of the other one is parked in hist, and a
\* switch between any two steps hands the variables to the other one. The
\* channel of a FromChannel source is the same for both.
Go(F) ==
    /\ phase = "build"
    /\ hist = <<>>
    /\ \E g \in F \cup {flow} :
           hist' = <<[flow |-> g, calls |-> IF g = flow THEN calls ELSE <<>>,
                      phase |-> "build", term |-> term, res |-> NewRes,
                      stack |-> <<>>, ctl |-> Idle, trace |-> <<>>,
                      overlap |-> FALSE]>>
    /\ UNCHANGED <<flow, calls, phase, term, res, stack, ctl, trace, chan, sendq, base, err>>

Switch ==
    /\ hist # <<>>
    /\ flow' = hist[1].flow
    /\ calls' = hist[1].calls
    /\ phase' = hist[1].phase
    /\ term' = hist[1].term
    /\ res' = hist[1].res
    /\ stack' = hist[1].stack
    /\ ctl' = hist[1].ctl
    /\ trace' = hist[1].trace
    /\ hist' = <<[flow |-> flow, calls |-> calls, phase |-> phase, term |-> term,
                  res |-> res, stack |-> stack, ctl |-> ctl, trace |-> trace,
                  overlap |-> hist[1].overlap
                                \/ (phase = "eval" /\ hist[1].phase = "eval")]>>
    /\ UNCHANGED <<chan, sendq, base, err>>

InitWith(sources, data) ==
    /\ flow \in sources
    /\ base = flow
    /\ calls = <<>>
    /\ phase = "build"
    /\ term = [kind |-> "none", arg |-> ""]
    /\ res = NewRes
    /\ stack = <<>>
    /\ ctl = Idle
    /\ trace = <<>>
    /\ chan = [buf |-> <<>>, closed |-> FALSE, sent |-> <<>>]
    /\ sendq \in data
    /\ hist = <<>>
    /\ err = ""

-----------------------------------------------------------------------------
(* Pipelines of one operator over every kind of source, driven by a consumer
   that may stop at any element *)

TakeCounts == -1..(MaxLen + 1)
Sizes == -1..MaxLen

Others == {Empty, NewFlow(<<2>>), NewFlow(<<0, 1>>)}
OtherLists == {<<>>} \cup {<<o>> : o \in Others} \cup {<<o, p>> : o, p \in Others}

FiniteSources ==
    {NewFlow(s) : s \in Slices} \cup {Single(v) : v \in Values}
        \cup {Range(a, b) : a, b \in Values} \cup {Empty}

Init ==
    \/ InitWith(FiniteSources \cup {Infinite(g) : g \in Generators}, {<<>>})
    \/ InitWith({FromChannel}, Slices)

Sources ==
    \/ NewFlowSource \/ SingleSource \/ EmptySource \/ RangeSource \/ InfiniteSource
    \/ FromChannelSource \/ Sender

Operators ==
    \/ FilterSource \/ MapSource \/ MapToSource \/ PeekSource \/ TakeSource
    \/ SkipSource \/ TakeWhileSource \/ SkipWhileSource \/ DistinctSource
    \/ ConcatSource \/ FlowMergeSource \/ MergeSource \/ FlatMapSource
    \/ CombineSource \/ CombineWithSource \/ ChunkSource \/ WindowSource
    \/ GroupByFlowSource

CallOperator ==
    \/ CallFilter(Predicates) \/ CallMap \/ CallMapTo \/ CallPeek
    \/ CallTake(TakeCounts) \/ CallSkip(TakeCounts) \/ CallTakeWhile \/ CallSkipWhile
    \/ CallDistinct \/ CallFlatMap \/ CallGroupByFlow
    \/ CallChunk(Sizes) \/ CallWindow(Sizes)
    \/ CallConcat(Others) \/ CallFlowMerge(OtherLists) \/ CallMerge(OtherLists)
    \/ CallCombine(Others) \/ CallCombineWith(Others)

Next ==
    \/ Sources
    \/ Operators
    \/ Fresh /\ CallOperator
    \/ Consume

Spec == Init /\ [][Next]_vars

-----------------------------------------------------------------------------
(* Reading the trace *)

IsSink(e) == e[1] = "sink"
IsYieldOf(e, id) == e[1] = "yield" /\ e[2] = id
IsStartOf(e, id) == e[1] = "start" /\ e[2] = id
IsEndOf(e, id) == e[1] = "end" /\ e[2] = id
IsFnOf(e, id) == e[1] = "fn" /\ e[2] = id

\* the values producer id has yielded, in order
YieldsOf(t, id) ==
    LET ys == SelectSeq(t, LAMBDA e : IsYieldOf(e, id))
    IN  [i \in 1..Len(ys) |-> ys[i][3]]

\* the arguments the function of frame id was called with, in order
FnArgsOf(t, id) ==
    LET cs == SelectSeq(t, LAMBDA e : IsFnOf(e, id))
    IN  [i \in 1..Len(cs) |-> cs[i][4]]

-----------------------------------------------------------------------------
(* C1: early termination.  Once the sink has returned false the producer does
   not invoke it again in that evaluation, at the terminal and at every loop
   body below it (Chunk's trailing chunk and Window's inner loop included), and
   the sink is not invoked after the outermost producer has returned. *)
C1_EarlyTermination ==
    /\ \A i, j \in 1..Len(trace) :
           (i < j /\ IsSink(trace[i]) /\ ~trace[i][3]) => ~IsSink(trace[j])
    /\ \A i, j \in 1..Len(trace) :
           (i < j /\ IsEndOf(trace[i], Root)) => ~IsSink(trace[j])
    /\ (phase = "eval" /\ ctl.k = "yield") =>
           IF ctl.at = 0 THEN ~res.stop ELSE ~stack[ctl.at].stop

\* a consumer refused a chunk or a window, and the producer has returned
C1_Witness ==
    /\ phase = "done"
    /\ flow.op \in {"Chunk", "Window"}
    /\ res.stop
    /\ Len(res.out) = 2

-----------------------------------------------------------------------------
(* Infinite(g), optionally filtered by a predicate that lets infinitely many
   elements through, then Take(n), consumed by Collect *)

GrowingPredicates == {"isEven", "greaterThanFive"}

Called_(name) == \E i \in 1..Len(calls) : calls[i][1] = name
LastCall(name) == calls # <<>> /\ calls[Len(calls)][1] = name

InitTake == InitWith({Infinite(g) : g \in Generators}, {<<>>})

NextTake ==
    \/ InfiniteSource \/ EmptySource \/ FilterSource \/ TakeSource
    \/ Fresh /\ CallFilter(GrowingPredicates)
    \/ ~Called_("Take") /\ CallTake(-1..MaxTake)
    \/ LastCall("Take") /\ Collect

SpecTake == InitTake /\ [][NextTake]_vars /\ WF_vars(NextTake)

\* the first n values of generator g that pass predicate p ("" for no filter),
\* from index i on
RECURSIVE FirstPassing(_, _, _, _)
FirstPassing(g, p, n, i) ==
    IF n <= 0 THEN <<>>
    ELSE IF p = "" \/ Predicate(p, Generator(g, i))
         THEN <<Generator(g, i)>> \o FirstPassing(g, p, n - 1, i + 1)
         ELSE FirstPassing(g, p, n, i + 1)

CallArg(name) == (CHOOSE c \in {calls[i] : i \in 1..Len(calls)} : c[1] = name)[2]

(* C2: Infinite(g).Take(n).Collect() terminates and returns g(0), ..., g(n-1),
   nothing when n <= 0; with a Filter in between that lets infinitely many
   elements through it terminates with the first n passing elements. *)
C2_TakeTerminates ==
    <>(/\ phase = "done"
       /\ LastCall("Take")
       /\ res.out = FirstPassing(base.generator,
                                 IF Called_("Filter") THEN CallArg("Filter") ELSE "",
                                 CallArg("Take"), 0))

\* Infinite(index).Filter(x > 5).Take(3).Collect() has returned [6, 7, 8]
C2_Witness ==
    /\ phase = "done"
    /\ flow = Take(Filter(Infinite("index"), "greaterThanFive"), 3)
    /\ res.out = <<6, 7, 8>>

-----------------------------------------------------------------------------
(* Take(n) directly over a slice or a channel, consumed by Collect or First *)

InitTakeSource ==
    \/ InitWith({NewFlow(s) : s \in Slices}, {<<>>})
    \/ InitWith({FromChannel}, Slices)

NextTakeSource ==
    \/ NewFlowSource \/ FromChannelSource \/ Sender \/ EmptySource \/ TakeSource
    \/ Fresh /\ CallTake(TakeCounts)
    \/ LastCall("Take") /\ (Collect \/ First)

SpecTakeSource == InitTakeSource /\ [][NextTakeSource]_vars

\* how many elements the source holds in all
SourceLength ==
    IF base.op = "NewFlow" THEN Len(base.values) ELSE Len(chan.sent) + Len(sendq)

\* what Take's loop has pulled from its inner producer so far
Pulled == YieldsOf(trace, Inner)

(* C3 as stated: in any evaluation Take(n), n > 0, pulls exactly
   min(n, length of source) elements from its inner producer. *)
C3_TakePullsExactly ==
    (phase = "done" /\ flow.op = "Take") => Len(Pulled) = Min(flow.n, SourceLength)

(* C3 as amended: Take(n), n > 0, never pulls more than min(n, length of
   source) elements, and pulls exactly that many when its consumer takes all it
   yields (Collect); it yields what it pulled; and of a channel source exactly
   the pulled values have been received, the rest being still in the channel or
   with the sender, in order. *)
C3_TakeNeverOverConsumes ==
    (phase \in {"eval", "done"} /\ flow.op = "Take") =>
        /\ Len(Pulled) <= Min(flow.n, SourceLength)
        /\ (phase = "done" /\ term.kind = "Collect") =>
               /\ Len(Pulled) = Min(flow.n, SourceLength)
               /\ res.out = Pulled
        /\ base.op = "FromChannel" => Pulled \o chan.buf = chan.sent
        /\ base.op = "NewFlow" => Pulled = SubSeq(base.values, 1, Len(Pulled))

\* Take(1).Collect() over a channel has returned one value and a second value is
\* still there for a later reader
C3_Witness ==
    /\ phase = "done"
    /\ term.kind = "Collect"
    /\ flow = Take(FromChannel, 1)
    /\ Len(res.out) = 1
    /\ chan.buf \o sendq # <<>>

-----------------------------------------------------------------------------
(* Any one operator constructed over a slice, then any terminal operation *)

InitLazy == InitWith({NewFlow(<<1, 2>>), NewFlow(<<0, 0, 1>>), Range(0, MaxLen)}, {<<>>})

Terminals ==
    \/ Collect \/ Count \/ Reduce \/ First \/ Last \/ AnyMatch \/ AllMatch
    \/ FindFirst \/ ForEach \/ ForEachFunc \/ GroupBy \/ Partition

NextLazy ==
    \/ NewFlowSource \/ EmptySource \/ RangeSource
    \/ Operators
    \/ Fresh /\ CallOperator
    \/ ~Fresh /\ Terminals

SpecLazy == InitLazy /\ [][NextLazy]_vars

(* C4: constructing an intermediate operator invokes neither the source
   producer nor a caller-supplied function: while the caller is still building
   (or a constructor has panicked) nothing has run, and whatever ran, ran after
   a terminal operation had started. *)
C4_ConstructionIsLazy ==
    /\ phase \in {"build", "panic"} => (trace = <<>> /\ stack = <<>>)
    /\ trace # <<>> => trace[1][1] = "terminal"
    /\ \A i \in 2..Len(trace) : trace[i][1] # "terminal"

\* GroupByFlow has been constructed and nothing has run yet
C4_Witness ==
    /\ phase = "build"
    /\ flow.op = "GroupByFlow"
    /\ trace = <<>>

-----------------------------------------------------------------------------
(* Filter, Map or MapTo over a finite source, consumed by Collect *)

\* the elements of a finite source, as its constructor's contract gives them
Elements(f) ==
    CASE f.op = "NewFlow" -> f.values
      [] f.op = "Single" -> <<f.value>>
      [] f.op = "Empty" -> <<>>
      [] f.op = "Range" -> [i \in 1..(f.end - f.start) |-> f.start + i - 1]

InitOps == InitWith(FiniteSources, {<<>>})

NextOps ==
    \/ NewFlowSource \/ SingleSource \/ EmptySource \/ RangeSource
    \/ FilterSource \/ MapSource \/ MapToSource
    \/ Fresh /\ (CallFilter(Predicates) \/ CallMap \/ CallMapTo)
    \/ ~Fresh /\ Collect

SpecOps == InitOps /\ [][NextOps]_vars

Collected == phase = "done" /\ term.kind = "Collect"

(* C5: Filter(p).Collect() over a finite source xs is the subsequence of xs of
   the elements satisfying p, in their order, and p is evaluated once per
   element pulled from the source, in order. *)
C5_FilterExact ==
    (Collected /\ flow.op = "Filter") =>
        /\ Pulled = Elements(base)
        /\ res.out = SelectSeq(Pulled, LAMBDA v : Predicate(flow.predicate, v))
        /\ FnArgsOf(trace, Root) = Pulled

\* Filter has dropped an element and kept a later one
C5_Witness ==
    /\ Collected /\ flow.op = "Filter"
    /\ Len(Pulled) = 2 /\ res.out = <<Pulled[2]>>

(* C6: Map(f).Collect() and MapTo(flow, f).Collect() over a finite source xs are
   [f(x) : x in xs], and f is applied once to each source element, in order. *)
C6_MapElementwise ==
    (Collected /\ flow.op \in {"Map", "MapTo"}) =>
        /\ Pulled = Elements(base)
        /\ res.out = [i \in 1..Len(Pulled) |-> Mapper(flow.mapper, Pulled[i])]
        /\ FnArgsOf(trace, Root) = Pulled

\* Map and MapTo have mapped two different elements
C6_Witness ==
    /\ Collected /\ flow.op = "MapTo" /\ flow.mapper = "double"
    /\ res.out = <<2, 4>>

-----------------------------------------------------------------------------
(* Take then Skip, and TakeWhile then SkipWhile, each collected from the same
   slice *)

PairSlices == SeqsUpTo(Values, MaxLen + 1)

InitPair == InitWith({NewFlow(s) : s \in PairSlices}, {<<>>})

\* the argument of the one operator call of the first pipeline
FirstArg == hist[1].calls[1][2]

NextPair ==
    \/ NewFlowSource \/ EmptySource
    \/ TakeSource \/ SkipSource \/ TakeWhileSource \/ SkipWhileSource
    \/ Fresh /\ hist = <<>> /\ (CallTake(TakeCounts) \/ CallTakeWhile)
    \/ Fresh /\ hist = <<>> /\ (CallSkip(TakeCounts) \/ CallSkipWhile)
    \/ Fresh /\ hist # <<>> /\ hist[1].calls[1][1] = "Take" /\ CallSkip({FirstArg})
    \/ Fresh /\ hist # <<>> /\ hist[1].calls[1][1] = "TakeWhile" /\ CallSkipWhile
    \/ ~Fresh /\ Collect
    \/ (LastCall("Take") \/ LastCall("TakeWhile")) /\ Rerun

SpecPair == InitPair /\ [][NextPair]_vars

\* xs without its first k elements
Drop(xs, k) == SubSeq(xs, k + 1, Len(xs))

\* the length of the longest prefix of xs whose elements all satisfy p
PrefixLen(xs, p) ==
    CHOOSE k \in 0..Len(xs) :
        /\ \A i \in 1..k : Predicate(p, xs[i])
        /\ k < Len(xs) => ~Predicate(p, xs[k + 1])

(* C7: Skip(n).Collect() over a finite source xs is xs without its first
   min(max(n, 0), len(xs)) elements, empty and without error when n >= len(xs);
   and Take(n).Collect() followed by Skip(n).Collect() of the same source
   concatenate to xs. *)
C7_SkipDrops ==
    (Collected /\ LastCall("Skip")) =>
        LET xs == Elements(base)
            n == CallArg("Skip")
        IN  /\ res.out = Drop(xs, Min(Max(n, 0), Len(xs)))
            /\ n >= Len(xs) => res.out = <<>>
            /\ err = ""
            /\ (hist # <<>> /\ hist[1].calls = <<<<"Take", n>>>>) =>
                   hist[1].res.out \o res.out = xs

\* Take(1) then Skip(1) over three elements: one taken, two left
C7_Witness ==
    /\ Collected /\ LastCall("Skip")
    /\ hist # <<>> /\ hist[1].calls = <<<<"Take", 1>>>>
    /\ Len(hist[1].res.out) = 1 /\ Len(res.out) = 2

(* C8: over a finite source xs, TakeWhile(p) yields the longest prefix of xs
   whose elements all satisfy p, stops the source at the first failing element
   and evaluates p on nothing after it; SkipWhile(p) yields the rest, from the
   first failing element on, and evaluates p on nothing after that element; the
   two results concatenated are xs. *)
C8_WhilePartition ==
    LET xs == Elements(base)
        p == CallArg(calls[1][1])
        k == PrefixLen(xs, p)
        tested == SubSeq(xs, 1, Min(k + 1, Len(xs)))
    IN  /\ (Collected /\ LastCall("TakeWhile")) =>
               /\ res.out = SubSeq(xs, 1, k)
               /\ Pulled = tested
               /\ FnArgsOf(trace, Root) = tested
        /\ (Collected /\ LastCall("SkipWhile")) =>
               /\ res.out = Drop(xs, k)
               /\ Pulled = xs
               /\ FnArgsOf(trace, Root) = tested
               /\ (hist # <<>> /\ hist[1].calls = <<<<"TakeWhile", p>>>>) =>
                      hist[1].res.out \o res.out = xs

\* TakeWhile took a prefix; SkipWhile of the same predicate yielded the failing
\* element and a later one that satisfies the predicate
C8_Witness ==
    /\ Collected /\ LastCall("SkipWhile")
    /\ hist # <<>> /\ hist[1].calls = <<<<"TakeWhile", "isEven">>>>
    /\ flow.predicate = "isEven"
    /\ hist[1].res.out = <<0>> /\ res.out = <<1, 2>>
    /\ Len(hist[1].trace) < Len(trace)

-----------------------------------------------------------------------------
(* Concat and Merge, alone or chained, possibly under Take, consumed by Collect
   or by a consumer that may stop at any element *)

MergeOthers == {Empty, NewFlow(<<2>>)}
MergeLists == {<<>>} \cup {<<o>> : o \in MergeOthers} \cup {<<o, p>> : o, p \in MergeOthers}

InitMerge == InitWith({Empty, NewFlow(<<1>>), NewFlow(<<1, 0>>)}, {<<>>})

\* the caller chains a second call onto the first
Chaining == Len(calls) = 1 /\ ~Called_("Take")

NextMerge ==
    \/ NewFlowSource \/ EmptySource
    \/ ConcatSource \/ FlowMergeSource \/ MergeSource \/ TakeSource
    \/ Fresh /\ (CallConcat(MergeOthers) \/ CallFlowMerge(MergeLists) \/ CallMerge(MergeLists))
    \/ Chaining /\ (CallConcat(MergeOthers) \/ CallFlowMerge({<<o>> : o \in MergeOthers}))
    \/ Chaining /\ CallMerge({<<o>> : o \in MergeOthers})
    \/ ~Fresh /\ ~Called_("Take") /\ CallTake(TakeCounts)
    \/ ~Fresh /\ (Collect \/ Consume)

SpecMerge == InitMerge /\ [][NextMerge]_vars

\* the pipelines a Concat or Merge producer drains, in the order it drains them
Parts(f) ==
    CASE f.op = "Concat" -> <<f.src, f.other>>
      [] f.op = "FlowMerge" -> <<f.src>> \o f.others
      [] f.op = "Merge" -> f.flows
      [] OTHER -> <<>>

\* the element sequences of finite pipelines, one after the other
RECURSIVE Flat(_)
Flat(fs) == IF fs = <<>> THEN <<>> ELSE Elements(Head(fs)) \o Flat(Tail(fs))

\* the elements of a pipeline of finite sources joined by Concat and Merge
RECURSIVE ElementsOf(_)
ElementsOf(f) ==
    LET ps == Parts(f)
        RECURSIVE Join(_)
        Join(i) == IF i = 0 THEN <<>> ELSE Join(i - 1) \o ElementsOf(ps[i])
    IN  IF ps = <<>> THEN Elements(f) ELSE Join(Len(ps))

\* the Concat or Merge pipeline under evaluation and the name of its producer
Merged == IF flow.op = "Take" THEN flow.src ELSE flow
MergedId == IF flow.op = "Take" THEN Inner ELSE Root

(* C9: in any evaluation of Concat and of Merge (function and method), the
   producer of a later pipeline is started only after the producer of every
   earlier pipeline has yielded all its elements and returned, and not at all
   once the sink has returned false or a Take above has reached its limit; so
   p1.Concat(p2).Take(k) with k <= len(p1) never starts p2. *)
C9_DrainsInOrder ==
    \A i \in 1..Len(trace), j \in 2..Len(Parts(Merged)) :
        IsStartOf(trace[i], MergedId \o <<j>>) =>
            LET before == SubSeq(trace, 1, i - 1)
            IN  /\ \A h \in 1..(j - 1) :
                       /\ \E e \in 1..(i - 1) : IsEndOf(trace[e], MergedId \o <<h>>)
                       /\ YieldsOf(before, MergedId \o <<h>>) = ElementsOf(Parts(Merged)[h])
                /\ \A e \in 1..(i - 1) : ~(IsSink(trace[e]) /\ ~trace[e][3])
                /\ flow.op = "Take" =>
                       /\ Len(YieldsOf(before, MergedId)) < flow.n
                       /\ flow.n > Len(ElementsOf(Parts(Merged)[1]))

\* p1.Concat(p2).Take(len(p1)).Collect() has returned p1's elements and p2, which
\* has an element, was never started
C9_Witness ==
    /\ Collected /\ flow.op = "Take" /\ flow.src.op = "Concat"
    /\ flow.src.other = NewFlow(<<2>>)
    /\ flow.n = Len(Elements(base)) /\ res.out = Elements(base)
    /\ \A i \in 1..Len(trace) : ~IsStartOf(trace[i], Inner \o <<2>>)

LastArg == calls[Len(calls)][2]

\* the elements the pipeline built by the first k calls is to have
RECURSIVE Expected(_)
Expected(k) ==
    IF k = 0 THEN Elements(base)
    ELSE LET name == calls[k][1]
             arg == calls[k][2]
         IN  CASE name = "Concat" -> Expected(k - 1) \o Elements(arg)
               [] name = "FlowMerge" -> Expected(k - 1) \o Flat(arg)
               [] name = "Merge" ->
                      (IF arg.first THEN Expected(k - 1) ELSE <<>>) \o Flat(arg.others)

(* C10: Collect of Merge(p1, ..., pk), of p1.Merge(p2, ..., pk) and of chained
   Concat and Merge calls is the concatenation of the pipelines' elements in
   listed order; Merge() is the empty pipeline; f.Merge() is f itself. *)
C10_MergeConcatenates ==
    /\ (Collected /\ ~Called_("Take")) => res.out = Expected(Len(calls))
    /\ (LastCall("Merge") /\ LastArg = [first |-> FALSE, others |-> <<>>]) => flow = Empty
    /\ calls = <<<<"FlowMerge", <<>>>>>> => flow = base

\* f.Merge() collected: the receiver's two elements
C10_Witness ==
    /\ Collected /\ calls = <<<<"FlowMerge", <<>>>>>>
    /\ res.out = <<1, 0>>

-----------------------------------------------------------------------------
(* Combine and CombineWith of slices and unbounded generators, possibly under
   Take(1), consumed by Collect or First *)

CombineOthers == Others \cup {Infinite("index")}

InitCombine == InitWith({NewFlow(s) : s \in Slices} \cup {Infinite("index")}, {<<>>})

NextCombine ==
    \/ NewFlowSource \/ EmptySource \/ InfiniteSource
    \/ CombineSource \/ CombineWithSource \/ TakeSource
    \/ Fresh /\ (CallCombine(CombineOthers) \/ CallCombineWith(CombineOthers))
    \/ ~Fresh /\ ~Called_("Take") /\ CallTake({1})
    \/ ~Fresh /\ (Collect \/ First)

SpecCombine == InitCombine /\ [][NextCombine]_vars

\* every step the program can take is eventually taken
SpecCombineFair == SpecCombine /\ WF_vars(NextCombine)

Unbounded(f) == f.op = "Infinite"

\* the result Combine or CombineWith f is to give for a_i and b_i
Combined(f, a, b) ==
    IF f.op = "Combine" THEN Pair(a, b) ELSE Combiner(f.combiner, a, b)

(* C11: for finite p1 = a_0..a_{m-1} and p2 = b_0..b_{n-1}, Combine(p1, p2)
   collects exactly the pairs (a_i, b_i), i < min(m, n), in index order, and
   CombineWith(p1, p2, c) collects c(a_i, b_i) for the same i: nothing is padded,
   the surplus of the longer input appears nowhere, and an empty input gives an
   empty result. *)
C11_CombineZips ==
    (Collected /\ flow.op \in {"Combine", "CombineWith"}) =>
        LET as == Elements(flow.src)
            bs == Elements(flow.other)
        IN  /\ res.out = [i \in 1..Min(Len(as), Len(bs)) |-> Combined(flow, as[i], bs[i])]
            /\ (as = <<>> \/ bs = <<>>) => res.out = <<>>
            /\ flow.op = "CombineWith" =>
                   FnArgsOf(trace, Root) =
                       [i \in 1..Min(Len(as), Len(bs)) |-> <<as[i], bs[i]>>]

\* two elements combined with one: one pair, the surplus element in no result
C11_Witness ==
    /\ Collected /\ flow.op = "Combine"
    /\ Len(Elements(flow.src)) = 2 /\ flow.other = NewFlow(<<2>>)
    /\ res.out = <<Pair(Elements(flow.src)[1], 2)>>

\* in t, producer id has yielded all the elements of f and has returned
Drained(t, id, f) ==
    /\ \E e \in 1..Len(t) : IsEndOf(t[e], id)
    /\ YieldsOf(t, id) = Elements(f)

(* C12: in any evaluation of Combine and CombineWith a result reaches the sink
   only after the first input's producer and then the second's have each yielded
   all their elements and returned, however few results the consumer takes:
   under Take(1) or First both inputs are still drained completely; and when
   either input is unbounded no result is ever produced. *)
C12_CombineBuffersBoth ==
    (phase \in {"eval", "done"} /\ Merged.op \in {"Combine", "CombineWith"}) =>
        LET one == MergedId \o <<1>>
            two == MergedId \o <<2>>
        IN  /\ \A i \in 1..Len(trace) :
                   IsYieldOf(trace[i], MergedId) =>
                       /\ ~Unbounded(Merged.src) /\ ~Unbounded(Merged.other)
                       /\ Drained(SubSeq(trace, 1, i - 1), one, Merged.src)
                       /\ Drained(SubSeq(trace, 1, i - 1), two, Merged.other)
            /\ \A i \in 1..Len(trace) :
                   IsStartOf(trace[i], two) =>
                       Drained(SubSeq(trace, 1, i - 1), one, Merged.src)
            /\ phase = "done" =>
                   /\ Drained(trace, one, Merged.src)
                   /\ Drained(trace, two, Merged.other)

\* First() of CombineWith over two and two elements: one result delivered, and
\* all four elements were pulled before it
C12_Witness ==
    /\ phase = "done" /\ term.kind = "First" /\ flow.op = "CombineWith"
    /\ res.found
    /\ Len(YieldsOf(trace, Inner)) = 2 /\ Len(YieldsOf(trace, <<2>>)) = 2
    /\ Len(YieldsOf(trace, Root)) = 1

\* Collect runs on a Combine or CombineWith of one finite and one unbounded input
OneEnds ==
    /\ phase = "eval" /\ term.kind = "Collect"
    /\ flow.op \in {"Combine", "CombineWith"}
    /\ Unbounded(flow.src) # Unbounded(flow.other)

FiniteInput == IF Unbounded(flow.src) THEN flow.other ELSE flow.src

(* C13: the flow of Combine(f1, f2) and CombineWith(f1, f2, c) ends when either
   input ends: with one finite input and one unbounded generator, consuming it
   to completion terminates and yields as many results as the finite input has
   elements. *)
C13_EndsWhenEitherEnds ==
    OneEnds ~> (/\ phase = "done"
                /\ flow.op \in {"Combine", "CombineWith"}
                /\ Unbounded(flow.src) # Unbounded(flow.other)
                /\ Len(res.out) = Len(Elements(FiniteInput)))

-----------------------------------------------------------------------------
(* Distinct (once or twice), Chunk and Window over a slice, consumed by Collect
   or by a consumer that may stop at any element *)

ShapeSlices == SeqsUpTo(Values, MaxLen + 1)
ShapeSizes == 1..(MaxLen + 1)

InitShape == InitWith({NewFlow(s) : s \in ShapeSlices}, {<<>>})

NextShape ==
    \/ NewFlowSource
    \/ DistinctSource \/ ChunkSource \/ WindowSource
    \/ Fresh /\ (CallDistinct \/ CallChunk(ShapeSizes) \/ CallWindow(ShapeSizes))
    \/ Chaining /\ LastCall("Distinct") /\ CallDistinct
    \/ ~Fresh /\ (Collect \/ Consume)

SpecShape == InitShape /\ [][NextShape]_vars

\* the first occurrences of the values of xs, in the order of xs
RECURSIVE FirstOccurrences(_)
FirstOccurrences(xs) ==
    IF xs = <<>> THEN <<>>
    ELSE LET init == SubSeq(xs, 1, Len(xs) - 1)
             last == xs[Len(xs)]
         IN  IF \E j \in 1..Len(init) : init[j] = last
             THEN FirstOccurrences(init)
             ELSE Append(FirstOccurrences(init), last)

\* the producer of the slice, below one call or two
SliceId == [i \in 1..Len(calls) |-> 1]

(* C14: Distinct yields each distinct value of the source once, at its first
   occurrence, in source order: no duplicates, every value of the source, an
   already-distinct sequence unchanged, Distinct(Distinct(f)) the same as
   Distinct(f); and when the consumer stops early the source has been pulled
   only up to the last first occurrence delivered. *)
C14_DistinctFirstOccurrences ==
    (phase = "done" /\ flow.op = "Distinct") =>
        LET xs == Elements(base)
            pulled == YieldsOf(trace, SliceId)
        IN  /\ \A i, j \in 1..Len(res.out) : i < j => res.out[i] # res.out[j]
            /\ pulled = SubSeq(xs, 1, Len(pulled))
            /\ res.out = FirstOccurrences(pulled)
            /\ ~res.stop =>
                   /\ pulled = xs
                   /\ {res.out[i] : i \in 1..Len(res.out)} = {xs[i] : i \in 1..Len(xs)}
                   /\ (\A i, j \in 1..Len(xs) : i < j => xs[i] # xs[j]) => res.out = xs
            /\ res.stop => pulled[Len(pulled)] = res.out[Len(res.out)]

\* Distinct over [0, 0, 1], the consumer stopping at 1: a duplicate was dropped
\* and the source pulled to its third element
C14_Witness ==
    /\ phase = "done" /\ flow.op = "Distinct" /\ res.stop
    /\ YieldsOf(trace, SliceId) = <<0, 0, 1>>
    /\ res.out = <<0, 1>>

\* the slices of a sequence of slices, one after the other
RECURSIVE Flatten(_)
Flatten(ss) == IF ss = <<>> THEN <<>> ELSE Head(ss) \o Flatten(Tail(ss))

(* C15: for size > 0 and a finite source of n elements, Chunk emits ceil(n/size)
   chunks whose concatenation is the source; every chunk but the last has size
   elements, the last between 1 and size (a short final chunk is emitted, none
   when size divides n), no chunk is empty, and each full chunk is emitted as
   soon as its size-th element has been pulled, before the next is pulled. *)
C15_ChunkPartitions ==
    (phase \in {"eval", "done"} /\ flow.op = "Chunk") =>
        LET xs == Elements(base)
            n == Len(xs)
            size == flow.size
        IN  /\ \A i \in 1..Len(trace) :
                   IsYieldOf(trace[i], Root) =>
                       LET upTo == SubSeq(trace, 1, i)
                           k == Len(YieldsOf(upTo, Root))
                       IN  /\ Len(YieldsOf(upTo, Inner)) = Min(k * size, n)
                           /\ Len(trace[i][3]) \in 1..size
            /\ Collected =>
                   /\ Len(res.out) = (n + size - 1) \div size
                   /\ Flatten(res.out) = xs
                   /\ \A i \in 1..(Len(res.out) - 1) : Len(res.out[i]) = size
                   /\ \A i \in 1..Len(res.out) : Len(res.out[i]) \in 1..size
                   /\ n % size = 0 => \A i \in 1..Len(res.out) : Len(res.out[i]) = size

\* three elements in chunks of two: a full chunk and a short final chunk
C15_Witness ==
    /\ Collected /\ flow.op = "Chunk" /\ flow.size = 2
    /\ Len(res.out) = 2 /\ Len(res.out[1]) = 2 /\ Len(res.out[2]) = 1

-----------------------------------------------------------------------------
\* the call of Chunk or Window the caller made last, and whether its
\* configuration is valid
ShapeCall == LastCall("Chunk") \/ LastCall("Window")
ValidShape ==
    IF LastCall("Chunk") THEN LastArg > 0 ELSE LastArg[1] > 0 /\ LastArg[2] > 0

(* C16: Chunk with size <= 0 and Window with size <= 0 or step <= 0 panic at the
   constructing call: no Flow is returned, the source producer is not invoked,
   nothing is deferred to consumption; and a Chunk or Window flow that was
   constructed raises no configuration error while it is consumed. *)
C16_ConfigurationFailsFast ==
    ShapeCall =>
        IF ValidShape
        THEN /\ phase # "panic" /\ err = ""
             /\ flow.op \in {"Chunk", "Window"}
        ELSE /\ phase = "panic"
             /\ err = (IF LastCall("Chunk") THEN "chunk size must be positive"
                       ELSE IF LastArg[1] <= 0 THEN "window size must be positive"
                       ELSE "window step must be positive")
             /\ flow = base /\ flow.op \notin {"Chunk", "Window"}
             /\ trace = <<>> /\ stack = <<>>

\* Window(f, 1, 0) has panicked at the call
C16_Witness ==
    /\ phase = "panic" /\ LastCall("Window") /\ LastArg = <<1, 0>>
    /\ err = "window step must be positive"

-----------------------------------------------------------------------------
\* the windows of size elements that start step positions apart in xs: window k
\* is xs at positions k*step .. k*step+size-1, for every k with k*step+size <= n
WindowsOf(xs, size, step) ==
    LET count == IF Len(xs) < size THEN 0 ELSE (Len(xs) - size) \div step + 1
    IN  [k \in 1..count |-> SubSeq(xs, (k - 1) * step + 1, (k - 1) * step + size)]

(* C17: for 0 < step <= size and a finite source of n elements, Window(size,
   step) emits exactly the windows k = 0, 1, ... with k*step + size <= n, in
   increasing k, window k being the source at positions k*step .. k*step+size-1;
   every window has size elements, no trailing incomplete window is emitted, and
   a source shorter than size yields no window. *)
C17_WindowSlides ==
    (Collected /\ flow.op = "Window" /\ flow.step <= flow.size) =>
        LET xs == Elements(base)
        IN  /\ res.out = WindowsOf(xs, flow.size, flow.step)
            /\ \A i \in 1..Len(res.out) : Len(res.out[i]) = flow.size
            /\ Len(xs) < flow.size => res.out = <<>>

\* Window(2, 1) over three elements: two overlapping windows
C17_Witness ==
    /\ Collected /\ flow.op = "Window" /\ flow.size = 2 /\ flow.step = 1
    /\ Len(res.out) = 2 /\ res.out[1][2] = res.out[2][1]
    /\ Len(Elements(base)) = 3

(* C18: for step > size, Window(size, step) produces gapped windows: consecutive
   windows start step source positions apart (window k is the source at
   positions k*step .. k*step+size-1) and the step-size elements between two
   windows appear in no window. *)
C18_WindowGaps ==
    (Collected /\ flow.op = "Window" /\ flow.step > flow.size) =>
        res.out = WindowsOf(Elements(base), flow.size, flow.step)

-----------------------------------------------------------------------------
(* GroupBy of a slice, and GroupByFlow of a slice, possibly under Take,
   collected *)

InitGroup == InitWith({NewFlow(s) : s \in ShapeSlices}, {<<>>})

NextGroup ==
    \/ NewFlowSource \/ EmptySource \/ GroupByFlowSource \/ TakeSource
    \/ Fresh /\ CallGroupByFlow
    \/ LastCall("GroupByFlow") /\ CallTake(TakeCounts)
    \/ Fresh /\ GroupBy
    \/ ~Fresh /\ Collect

SpecGroup == InitGroup /\ [][NextGroup]_vars

\* the elements of xs that keyFunc k maps to key, in the order of xs
GroupOf(xs, k, key) == SelectSeq(xs, LAMBDA x : KeyFunc(k, x) = key)

RECURSIVE SumOfLens(_, _)
SumOfLens(g, keys) ==
    IF keys = {} THEN 0
    ELSE LET key == CHOOSE key \in keys : TRUE
         IN  Len(g[key]) + SumOfLens(g, keys \ {key})

(* C19: GroupBy drains the source and returns a mapping in which every source
   element is in exactly one group, the group of keyFunc(element), in source
   order within the group; the group sizes sum to the source length, no group is
   empty, and keyFunc is called once per element. *)
C19_GroupByPartitions ==
    (phase = "done" /\ term.kind = "GroupBy") =>
        LET xs == Elements(base)
            g == res.groups
        IN  /\ YieldsOf(trace, Root) = xs
            /\ FnArgsOf(trace, <<0>>) = xs
            /\ DOMAIN g = {KeyFunc(term.arg, xs[i]) : i \in 1..Len(xs)}
            /\ \A key \in DOMAIN g : g[key] = GroupOf(xs, term.arg, key) /\ g[key] # <<>>
            /\ SumOfLens(g, DOMAIN g) = Len(xs)

\* three elements grouped by parity into a group of two and a group of one
C19_Witness ==
    /\ phase = "done" /\ term.kind = "GroupBy" /\ term.arg = "mod2"
    /\ DOMAIN res.groups = {0, 1}
    /\ Len(res.groups[0]) = 2 /\ Len(res.groups[1]) = 1
    /\ res.groups[0][1] # res.groups[0][2]

\* the key/group pairs of xs under keyFunc k, in the order in which the keys
\* first occur in xs
GroupsFirstSeen(xs, k) ==
    LET keys == FirstOccurrences([i \in 1..Len(xs) |-> KeyFunc(k, xs[i])])
    IN  [i \in 1..Len(keys) |-> KeyValue(keys[i], GroupOf(xs, k, keys[i]))]

(* C20: GroupByFlow yields one key/group pair per distinct key of the source,
   in first-seen key order, each group holding its elements in source order;
   a prefix taken with Take(j) is the groups of the j earliest-seen keys. *)
C20_GroupsInFirstSeenOrder ==
    (Collected /\ Called_("GroupByFlow")) =>
        LET all == GroupsFirstSeen(Elements(base), CallArg("GroupByFlow"))
        IN  IF LastCall("Take")
            THEN res.out = SubSeq(all, 1, Min(Max(LastArg, 0), Len(all)))
            ELSE res.out = all

-----------------------------------------------------------------------------
(* Partition of a finite source, after Filter(p).Collect() or
   Filter(not p).Collect() of the same source *)

\* the predicate that holds exactly where p does not
Negated(p) ==
    CASE p = "isEven" -> "isOdd"
      [] p = "lessThanTwo" -> "atLeastTwo"
      [] p = "isOdd" -> "isEven"
      [] p = "atLeastTwo" -> "lessThanTwo"

InitPartition == InitWith(FiniteSources, {<<>>})

NextPartition ==
    \/ NewFlowSource \/ SingleSource \/ EmptySource \/ RangeSource
    \/ FilterSource
    \/ Fresh /\ hist = <<>> /\ CallFilter(Predicates \cup {Negated(p) : p \in Predicates})
    \/ LastCall("Filter") /\ Collect
    \/ Collected /\ Rerun
    \/ Fresh /\ Partition

SpecPartition == InitPartition /\ [][NextPartition]_vars

\* the source has been ranged over once, from its first element to its last
DrainedOnce(xs) ==
    /\ YieldsOf(trace, Root) = xs
    /\ Cardinality({i \in 1..Len(trace) : IsStartOf(trace[i], Root)}) = 1

(* C21: Partition drains the source exactly once and returns as matching the
   elements that satisfy the predicate and as notMatching the others, each in
   source order: matching is what Filter(p).Collect() returns for the same
   source, notMatching what Filter(not p).Collect() returns, and the two
   lengths sum to the source length. *)
C21_PartitionSplits ==
    (phase = "done" /\ term.kind = "Partition") =>
        LET xs == Elements(base)
            p == term.arg
        IN  /\ DrainedOnce(xs)
            /\ FnArgsOf(trace, <<0>>) = xs
            /\ res.matching = SelectSeq(xs, LAMBDA x : Predicate(p, x))
            /\ res.notMatching = SelectSeq(xs, LAMBDA x : ~Predicate(p, x))
            /\ Len(res.matching) + Len(res.notMatching) = Len(xs)
            /\ \A i \in 1..Len(hist) :
                   /\ hist[i].calls = <<<<"Filter", p>>>> =>
                          res.matching = hist[i].res.out
                   /\ hist[i].calls = <<<<"Filter", Negated(p)>>>> =>
                          res.notMatching = hist[i].res.out

\* a source partitioned into two non-empty halves, the second of which
\* Filter(not p).Collect() had returned before
C21_Witness ==
    /\ phase = "done" /\ term.kind = "Partition"
    /\ res.matching # <<>> /\ res.notMatching # <<>>
    /\ hist # <<>>
    /\ hist[1].calls = <<<<"Filter", Negated(term.arg)>>>>
    /\ hist[1].res.out = res.notMatching

-----------------------------------------------------------------------------
(* FlatMap over every kind of source, under a consumer that may stop at any
   element *)

\* s is t, or t without its last element
LagsByOne(s, t) == s = t \/ (t # <<>> /\ s = SubSeq(t, 1, Len(t) - 1))

(* C22: FlatMap yields the concatenation of the sub-pipelines mapper(x), in
   source order: mapper is applied to a source element only when the
   sub-pipelines of all earlier elements have been drained, and once the sink
   has returned false nothing more is yielded by the current sub-pipeline, no
   further source element is pulled and mapper is not called again. *)
C22_FlatMapConcatenates ==
    (phase \in {"eval", "done"} /\ flow.op = "FlatMap") =>
        LET args == FnArgsOf(trace, Root)
            n == Len(args)
            subs == [i \in 1..n |-> Elements(FlowMapper(flow.mapper, args[i]))]
            inner == YieldsOf(trace, <<2>>)
            out == YieldsOf(trace, Root)
            Sunk(e) == IsSink(e)
            sunk == SelectSeq(trace, Sunk)
        IN  /\ LagsByOne(args, YieldsOf(trace, Inner))
            /\ LagsByOne(out, inner)
            /\ [i \in 1..Len(sunk) |-> sunk[i][2]] \in {out, SubSeq(out, 1, Len(out) - 1)}
            /\ IF n = 0 THEN inner = <<>>
               ELSE \E k \in 0..Len(subs[n]) :
                        inner = Flatten(SubSeq(subs, 1, n - 1)) \o SubSeq(subs[n], 1, k)
            /\ \A i \in 1..Len(trace) :
                   \* a mapper call finds every earlier sub-pipeline drained
                   /\ IsFnOf(trace[i], Root) =>
                          LET before == SubSeq(trace, 1, i)
                              m == Len(FnArgsOf(before, Root))
                          IN  /\ YieldsOf(before, Root) = Flatten(SubSeq(subs, 1, m - 1))
                              /\ Cardinality({j \in 1..i : IsEndOf(trace[j], <<2>>)}) = m - 1
                   \* after the sink has returned false the producers only return
                   /\ (IsSink(trace[i]) /\ ~trace[i][3]) =>
                          \A j \in (i + 1)..Len(trace) : trace[j][1] \in {"end", "result"}
            /\ (phase = "done" /\ ~res.stop /\ base \in FiniteSources) =>
                   /\ args = Elements(base)
                   /\ out = Flatten(subs)
                   /\ res.out = out

\* the sink returned false at the first element of the first sub-pipeline of a
\* two-element source: one mapper call, one element out, the second source
\* element never pulled
C22_Witness ==
    /\ phase = "done" /\ flow.op = "FlatMap" /\ res.stop
    /\ base \in FiniteSources /\ Len(Elements(base)) = 2
    /\ Len(FnArgsOf(trace, Root)) = 1
    /\ YieldsOf(trace, Inner) = <<Elements(base)[1]>>
    /\ Len(YieldsOf(trace, Root)) = 1
    /\ Len(Elements(FlowMapper(flow.mapper, Elements(base)[1]))) = 2

-----------------------------------------------------------------------------
(* A terminal operation directly on a source: the short-circuiting ones on
   finite and on unbounded sources, the draining ones on finite sources *)

ShortCircuiting == {"First", "AnyMatch", "NoneMatch", "AllMatch", "FindFirst"}
Draining == {"Last", "Count", "Collect", "Reduce"}

InitShortCircuit == InitWith(FiniteSources \cup {Infinite(g) : g \in Generators}, {<<>>})

NextShortCircuit ==
    \/ NewFlowSource \/ SingleSource \/ EmptySource \/ RangeSource \/ InfiniteSource
    \/ First \/ AnyMatch \/ AllMatch \/ FindFirst
    \/ flow \in FiniteSources /\ (Last \/ Count \/ Collect \/ Reduce)

SpecShortCircuit ==
    InitShortCircuit /\ [][NextShortCircuit]_vars /\ WF_vars(NextShortCircuit)

\* the value that settles a short-circuiting terminal with predicate p
Settles(kind, p, v) ==
    CASE kind = "First" -> TRUE
      [] kind \in {"AnyMatch", "NoneMatch", "FindFirst"} -> Predicate(p, v)
      [] kind = "AllMatch" -> ~Predicate(p, v)

RECURSIVE SumOf(_)
SumOf(xs) == IF xs = <<>> THEN 0 ELSE Head(xs) + SumOf(Tail(xs))

\* what a terminal has pulled and tested so far, and what it returned
PullsOnlyWhatSettles ==
    phase \in {"eval", "done"} =>
        LET pulled == YieldsOf(trace, Root)
            tested == FnArgsOf(trace, <<0>>)
            k == term.kind
        IN  /\ k = "First" => Len(pulled) <= 1
            /\ k \in ShortCircuiting =>
                   \* no element but the last one pulled settles the terminal
                   /\ \A i \in 1..(Len(pulled) - 1) : ~Settles(k, term.arg, pulled[i])
                   /\ k # "First" => LagsByOne(tested, pulled)
                   /\ phase = "done" =>
                          /\ k # "First" => tested = pulled
                          /\ res.found <=> (pulled # <<>>
                                              /\ Settles(k, term.arg, pulled[Len(pulled)]))
                          /\ (res.found /\ k \in {"First", "FindFirst"}) =>
                                 res.val = pulled[Len(pulled)]
                          /\ ~res.found => (base \in FiniteSources /\ pulled = Elements(base))
            /\ (k \in Draining /\ phase = "done") =>
                   /\ pulled = Elements(base)
                   /\ k = "Collect" => res.out = pulled
                   /\ k = "Count" => res.count = Len(pulled)
                   /\ k = "Reduce" => res.val = SumOf(pulled)
                   /\ k = "Last" => /\ res.found <=> pulled # <<>>
                                    /\ res.found => res.val = pulled[Len(pulled)]

(* C23: First pulls at most one element; AnyMatch, NoneMatch and FindFirst pull
   nothing after the first element that satisfies the predicate, AllMatch
   nothing after the first that fails it, and the predicate is not evaluated on
   later elements; each of them terminates, also on an Infinite source that
   contains such an element. Last, Count, Collect and Reduce pull every element
   of the source. *)
C23_ShortCircuit ==
    /\ []PullsOnlyWhatSettles
    /\ (phase = "eval" /\ term.kind \in ShortCircuiting) ~> (phase = "done")

\* AllMatch(lessThanTwo) over Infinite(index) has returned false after pulling
\* and testing 0, 1 and 2
C23_Witness ==
    /\ phase = "done" /\ term.kind = "AllMatch" /\ res.found
    /\ base = Infinite("index")
    /\ YieldsOf(trace, Root) = <<0, 1, 2>>
    /\ FnArgsOf(trace, <<0>>) = <<0, 1, 2>>

-----------------------------------------------------------------------------
(* ToChannel of a slice, possibly filtered or mapped, with a consumer that
   receives until the channel is closed *)

InitToChannel == InitWith({NewFlow(s) : s \in ShapeSlices}, {<<>>})

NextToChannel ==
    \/ NewFlowSource \/ FilterSource \/ MapSource
    \/ Fresh /\ CallFilter(Predicates)
    \/ Fresh /\ CallMap
    \/ ToChannel
    \/ Receiver

SpecToChannel ==
    InitToChannel /\ [][NextToChannel]_vars
        /\ WF_vars(NewFlowSource \/ FilterSource \/ MapSource \/ ToChannel)
        /\ WF_vars(Receiver)

\* what a pipeline of Filter, Map, Take, Skip and Distinct over a finite source
\* holds
RECURSIVE Holds(_)
Holds(f) ==
    CASE f.op = "Filter" -> SelectSeq(Holds(f.src), LAMBDA x : Predicate(f.predicate, x))
      [] f.op = "Map" -> [i \in 1..Len(Holds(f.src)) |-> Mapper(f.mapper, Holds(f.src)[i])]
      [] f.op = "Take" -> SubSeq(Holds(f.src), 1, Min(f.n, Len(Holds(f.src))))
      [] f.op = "Skip" -> Drop(Holds(f.src), f.n)
      [] f.op = "Distinct" -> FirstOccurrences(Holds(f.src))
      [] OTHER -> Elements(f)

\* the values that have entered the channel, in the order of the sends
SentOn(ch) == ch.rcvd \o ch.buf

IsPrefix(s, t) == Len(s) <= Len(t) /\ s = SubSeq(t, 1, Len(s))

ChannelCarriesPipeline ==
    term.kind = "ToChannel" =>
        /\ Len(res.ch.buf) <= term.arg
        /\ SentOn(res.ch) = [i \in 1..Len(SelectSeq(trace, IsSink)) |->
                                 SelectSeq(trace, IsSink)[i][2]]
        /\ IsPrefix(SentOn(res.ch), Holds(flow))
        /\ res.ch.closes <= 1
        /\ res.ch.closed <=> res.ch.closes = 1
        /\ res.ch.closed => SentOn(res.ch) = Holds(flow)
        /\ res.ch.over => (res.ch.closed /\ res.ch.rcvd = Holds(flow))

(* C24: for a finite pipeline and any bufferSize >= 0, ToChannel returns the
   channel before anything has been pulled; a consumer that receives until the
   channel is closed, under fair scheduling, receives exactly the elements of
   the pipeline, once each and in order; the channel is closed exactly once,
   and only after the last element has been sent. *)
C24_ToChannelDelivers ==
    /\ []ChannelCarriesPipeline
    /\ [][(phase = "build" /\ term'.kind = "ToChannel" /\ phase' = "eval") =>
             (YieldsOf(trace', Root) = <<>> /\ res'.ch = NewRes.ch)]_vars
    /\ (term.kind = "ToChannel") ~>
           (res.ch.over /\ res.ch.rcvd = Holds(flow) /\ res.ch.closes = 1)

\* three elements, the second filtered out, were received through an
\* unbuffered channel that is now closed
C24_Witness ==
    /\ term.kind = "ToChannel" /\ term.arg = 0
    /\ flow.op = "Filter" /\ Len(Elements(base)) = 3
    /\ res.ch.over
    /\ res.ch.rcvd = <<Elements(base)[1], Elements(base)[3]>>
    /\ Len(YieldsOf(trace, Inner)) = 3

-----------------------------------------------------------------------------
(* A pipeline of one or two operators over a slice, collected twice *)

InitAgain == InitWith({NewFlow(s) : s \in Slices}, {<<>>})

NextAgain ==
    \/ NewFlowSource \/ EmptySource \/ RangeSource
    \/ FilterSource \/ MapSource \/ PeekSource \/ TakeSource
    \/ SkipSource \/ TakeWhileSource \/ SkipWhileSource \/ DistinctSource
    \/ ConcatSource \/ FlowMergeSource \/ MergeSource \/ FlatMapSource
    \/ CombineSource \/ ChunkSource \/ WindowSource
    \/ /\ Fresh /\ hist = <<>>
       /\ \/ CallFilter(Predicates) \/ CallMap \/ CallPeek
          \/ CallTake(TakeCounts) \/ CallSkip(TakeCounts) \/ CallTakeWhile \/ CallSkipWhile
          \/ CallDistinct \/ CallFlatMap
          \/ CallChunk(Sizes) \/ CallWindow(Sizes)
          \/ CallConcat(Others) \/ CallFlowMerge(OtherLists) \/ CallMerge(OtherLists)
          \/ CallCombine(Others)
    \/ /\ Len(calls) = 1 /\ hist = <<>>
       /\ \/ CallFilter({"isEven"}) \/ CallTake({1}) \/ CallSkip({1}) \/ CallDistinct
    \/ Collect
    \/ Again

SpecAgain == InitAgain /\ [][NextAgain]_vars

(* C25: every Collect of the same pipeline over a fixed collection returns the
   same sequence, whatever operators of Filter, Map, Peek, Take, Skip,
   TakeWhile, SkipWhile, Concat, Merge, Distinct, Chunk, Window, FlatMap and
   Combine it is composed of: the second evaluation starts from fresh operator
   state and runs exactly as the first did; Collect of NewFlow(xs) returns xs
   every time. *)
C25_CollectRepeats ==
    /\ (phase = "eval" /\ Len(trace) = 2) => stack = <<NewFrame(flow, Root, 0)>>
    /\ (Collected /\ hist # <<>>) =>
           /\ hist[1].flow = flow
           /\ res.out = hist[1].res.out
           /\ trace = hist[1].trace
    /\ (Collected /\ Fresh) => res.out = Elements(base)

\* Distinct, then Skip(1), of a slice of two different values collected a
\* second time, with the second value as the result both times
C25_Witness ==
    /\ Collected /\ hist # <<>>
    /\ flow.op = "Skip" /\ flow.src.op = "Distinct"
    /\ Len(Elements(base)) = 2
    /\ res.out = <<Elements(base)[2]>>
    /\ res.out = hist[1].res.out

-----------------------------------------------------------------------------
(* FromChannel over a channel that a goroutine feeds and closes, and two
   terminal operations, one after the other, on the same Flow *)

InitChannelAgain == InitWith({FromChannel}, Slices)

NextChannelAgain ==
    \/ FromChannelSource \/ Sender
    \/ First \/ Collect \/ Count
    \/ Again

SpecChannelAgain == InitChannelAgain /\ [][NextChannelAgain]_vars

(* C26: a FromChannel pipeline yields the sequence its sender sent at most
   once: after a first terminal operation on it has completed, a second
   terminal operation on the same Flow pulls no element and has an empty
   result, and no value is delivered to both. *)
C26_SecondDrainEmpty ==
    hist # <<>> =>
        /\ IsPrefix(YieldsOf(hist[1].trace, Root) \o YieldsOf(trace, Root), chan.sent)
        /\ YieldsOf(trace, Root) = <<>>
        /\ phase = "done" => (res.out = <<>> /\ res.count = 0 /\ ~res.found)

-----------------------------------------------------------------------------
(* C27: ForEach with an argument that is not a function (nil included) fails
   with "ForEach: argument must be a function" before any element is pulled;
   with a function it calls the function once per element, in order. *)
C27_ForEachRejectsNonFunctions ==
    term.kind = "ForEach" =>
        IF IsFunc(term.arg)
        THEN /\ phase \in {"eval", "done"}
             /\ LagsByOne(FnArgsOf(trace, <<0>>), YieldsOf(trace, Root))
             /\ phase = "done" => FnArgsOf(trace, <<0>>) = YieldsOf(trace, Root)
        ELSE /\ phase = "panic"
             /\ err = "ForEach: argument must be a function"
             /\ trace = <<>> /\ stack = <<>>

-----------------------------------------------------------------------------
(* A chain of up to three Peek, Map and Filter stages over a slice, possibly
   under a Take, collected *)

MaxStages == 3

ChainSlices == SeqsUpTo({1, 2}, MaxLen)

InitChain == InitWith({NewFlow(s) : s \in ChainSlices}, {<<>>})

NextChain ==
    \/ NewFlowSource \/ PeekSource \/ MapSource \/ FilterSource \/ TakeSource
    \/ /\ Len(calls) < MaxStages /\ ~Called_("Take")
       /\ (CallPeek \/ CallMap \/ CallFilter({"isEven"}))
    \/ ~Fresh /\ ~Called_("Take") /\ CallTake({1, MaxLen})
    \/ ~Fresh /\ Collect

SpecChain == InitChain /\ [][NextChain]_vars

\* the producer of the i-th operator called is named by its depth in the chain
StageId(i) == [j \in 1..(Len(calls) - i) |-> 1]

\* the function calls the stages from the i-th on make for an element that
\* reaches stage i as v, and the value that comes out of the last stage, if any
RECURSIVE StageFns(_, _)
StageFns(i, v) ==
    IF i > Len(calls) THEN <<>>
    ELSE LET c == calls[i]
             call == <<"fn", StageId(i), c[2], v>>
         IN  CASE c[1] = "Peek" -> <<call>> \o StageFns(i + 1, v)
               [] c[1] = "Map" -> <<call>> \o StageFns(i + 1, Mapper(c[2], v))
               [] c[1] = "Filter" ->
                      <<call>> \o (IF Predicate(c[2], v) THEN StageFns(i + 1, v) ELSE <<>>)
               [] c[1] = "Take" -> StageFns(i + 1, v)

RECURSIVE ComesOut(_, _)
ComesOut(i, v) ==
    IF i > Len(calls) THEN <<v>>
    ELSE LET c == calls[i]
         IN  CASE c[1] = "Map" -> ComesOut(i + 1, Mapper(c[2], v))
               [] c[1] = "Filter" -> IF Predicate(c[2], v) THEN ComesOut(i + 1, v) ELSE <<>>
               [] OTHER -> ComesOut(i + 1, v)

\* the places in the trace where the source yields an element
Pulls == {i \in 1..Len(trace) : IsYieldOf(trace[i], StageId(0))}

\* the end of the part of the trace that belongs to the pull at i
UpTo(i) ==
    LET later == {j \in Pulls : j > i}
    IN  IF later = {} THEN Len(trace) ELSE (CHOOSE j \in later : \A k \in later : j <= k) - 1

IsFn(e) == e[1] = "fn"

(* C28: in a chain of Peek, Map and Filter stages every element goes through
   the stages' functions in stage order, each once, and reaches the sink or is
   dropped by a Filter before the next element is pulled; under a downstream
   Take(n) the functions run only for the elements pulled until the n-th result
   has been delivered. *)
C28_DepthFirst ==
    (phase \in {"eval", "done"} /\ ~Fresh) =>
        /\ \A i \in Pulls :
               LET part == SubSeq(trace, i + 1, UpTo(i))
                   fns == SelectSeq(part, IsFn)
                   sinks == SelectSeq(part, IsSink)
                   v == trace[i][3]
                   over == UpTo(i) < Len(trace) \/ phase = "done"
               IN  /\ IsPrefix(fns, StageFns(1, v))
                   /\ over => fns = StageFns(1, v)
                   /\ IsPrefix([j \in 1..Len(sinks) |-> sinks[j][2]], ComesOut(1, v))
                   /\ over => Len(sinks) = Len(ComesOut(1, v))
        /\ \A j \in 1..Len(trace) : IsFn(trace[j]) => \E i \in Pulls : i < j
        /\ IsPrefix(YieldsOf(trace, StageId(0)), Elements(base))
        /\ LastCall("Take") =>
               /\ Len(res.out) <= LastArg
               \* nothing is pulled once the n-th result is out
               /\ Len(res.out) = LastArg =>
                      \A i \in Pulls : \E j \in i..Len(trace) : IsSink(trace[j])
        /\ (phase = "done" /\ (~LastCall("Take") \/ Len(res.out) < LastArg)) =>
               YieldsOf(trace, StageId(0)) = Elements(base)

\* Peek, Filter, Map and Take(1) over two elements: the first element is
\* dropped by the Filter after Peek saw it, the second goes through all three
\* functions and is the result
C28_Witness ==
    /\ Collected
    /\ Len(calls) = 4 /\ calls[1][1] = "Peek" /\ calls[2][1] = "Filter"
    /\ calls[3][1] = "Map" /\ calls[4] = <<"Take", 1>>
    /\ Len(YieldsOf(trace, StageId(0))) = 2
    /\ Len(FnArgsOf(trace, StageId(1))) = 2
    /\ Len(FnArgsOf(trace, StageId(3))) = 1
    /\ Len(res.out) = 1

-----------------------------------------------------------------------------
(* ToChannel with a consumer that may stop receiving at any moment *)

NextBackpressure == NextToChannel \/ ReceiverLeaves

SpecBackpressure ==
    InitToChannel /\ [][NextBackpressure]_vars
        /\ WF_vars(NewFlowSource \/ FilterSource \/ MapSource \/ ToChannel)

\* the consumer has stopped receiving with more than bufferSize elements of the
\* pipeline not yet received
Abandoned ==
    /\ term.kind = "ToChannel"
    /\ res.ch.left
    /\ Len(Holds(flow)) - Len(res.ch.rcvd) > term.arg

\* the goroutine is in `ch <- val` with the buffer full
BlockedOnSend ==
    /\ AtTerminal("ToChannel", "yield")
    /\ Len(res.ch.buf) = term.arg
    /\ ~res.ch.closed

(* C29: the goroutine of ToChannel(bufferSize) is never more than
   bufferSize + 1 elements ahead of the consumer (pulled minus received); when
   the consumer stops receiving while more than bufferSize elements are
   undelivered, the goroutine ends up blocked in a send and stays there: it
   pulls nothing more, never closes the channel and never terminates. *)
C29_Backpressure ==
    /\ [](term.kind = "ToChannel" =>
             Len(YieldsOf(trace, Root)) - Len(res.ch.rcvd) <= term.arg + 1)
    /\ [](Abandoned => (~res.ch.closed /\ phase = "eval"))
    /\ Abandoned ~> [](BlockedOnSend /\ Len(YieldsOf(trace, Root)) = Len(res.ch.rcvd) + term.arg + 1)

\* the consumer left a buffered channel before receiving anything of three
\* elements: one is in the buffer, the second is in the blocked send, the third
\* has not been pulled
C29_Witness ==
    /\ Abandoned /\ BlockedOnSend
    /\ term.arg = 1 /\ res.ch.rcvd = <<>>
    /\ Len(res.ch.buf) = 1
    /\ Len(Holds(flow)) = 3
    /\ Len(YieldsOf(trace, Root)) = 2

-----------------------------------------------------------------------------
(* Two goroutines, each running a terminal operation: on the same Flow or on
   two independent Flows over slices, or on the same FromChannel Flow *)

Independent == {Distinct(NewFlow(<<0, 0, 1>>)), Take(NewFlow(<<2, 1>>), 1)}

InitConcurrent ==
    \/ InitWith({NewFlow(s) : s \in Slices}, {<<>>})
    \/ InitWith({FromChannel}, Slices)

NextConcurrent ==
    \/ NewFlowSource \/ FromChannelSource \/ Sender
    \/ FilterSource \/ TakeSource \/ SkipSource \/ DistinctSource
    \/ /\ Fresh /\ hist = <<>> /\ base # FromChannel
       /\ (CallFilter({"isEven"}) \/ CallTake({1}) \/ CallSkip({1}) \/ CallDistinct)
    \/ Go(IF base = FromChannel THEN {} ELSE Independent)
    \/ Switch
    \/ hist # <<>> /\ (Collect \/ Count)

SpecConcurrent == InitConcurrent /\ [][NextConcurrent]_vars

\* what the terminal operation that ran on f returns when nothing else runs
ReturnsAlone(f, t, r) ==
    /\ t.kind = "Collect" => r.out = Holds(f)
    /\ t.kind = "Count" => r.count = Len(Holds(f))

\* s can be obtained from t by leaving elements out
RECURSIVE IsSubsequence(_, _)
IsSubsequence(s, t) ==
    IF s = <<>> THEN TRUE
    ELSE IF t = <<>> THEN FALSE
    ELSE IF Head(s) = Head(t) THEN IsSubsequence(Tail(s), Tail(t))
         ELSE IsSubsequence(s, Tail(t))

BothDone == hist # <<>> /\ phase = "done" /\ hist[1].phase = "done"

(* C30: two terminal operations that run concurrently, on two independent
   pipelines or on the same Flow over a fixed collection, each return what
   they would return alone, under every interleaving: no operator state is
   shared between evaluations. Only a shared stateful source, a channel, makes
   the two results depend on each other: each value goes to one of them. *)
C30_ConcurrentEvaluations ==
    BothDone =>
        IF base # FromChannel
        THEN /\ ReturnsAlone(flow, term, res)
             /\ ReturnsAlone(hist[1].flow, hist[1].term, hist[1].res)
        ELSE LET mine == YieldsOf(trace, Root)
                 theirs == YieldsOf(hist[1].trace, Root)
             IN  /\ IsSubsequence(mine, chan.sent)
                 /\ IsSubsequence(theirs, chan.sent)
                 /\ Len(mine) + Len(theirs) = Len(chan.sent)

\* two Collects of the same Distinct over a slice with a repeated value have
\* run at the same time and both returned the one distinct value
C30_Witness ==
    /\ BothDone
    /\ hist[1].overlap
    /\ flow.op = "Distinct" /\ hist[1].flow = flow
    /\ Len(Elements(base)) = 2
    /\ term.kind = "Collect" /\ hist[1].term.kind = "Collect"
    /\ Len(res.out) = 1 /\ hist[1].res.out = res.out
====
